---- MODULE Spec2Model ----
(***************************************************************************)
(* Model of the signed-document specification model of catalyst-libs      *)
(* (specs/generators/packages/spec and its predecessor specs/gen_docs):   *)
(* the document reference graph, the CDDL requires-closure, the synthesis *)
(* of the composite header definitions and the metadata rendering.        *)
(*                                                                         *)
(* Each component has its own specification over the shared variables:    *)
(*   SpecGraph   documents, all_references / all_docs_referencing          *)
(*   SpecCddl    CDDLDefinitions._nested_cddl / cddl_file                  *)
(*   SpecSynth   Metadata.custom_metadata_header (generators)              *)
(*   SpecLegacy  SignedDoc.cddl_def.synthetic_headers (gen_docs)           *)
(*   SpecRender  MetadataHeader.metadata_as_markdown and its caller        *)
(* A component's variables stay at their idle value in the other          *)
(* specifications.                                                         *)
(***************************************************************************)
EXTENDS Integers, Sequences, FiniteSets, TLC

VARIABLES
    \* ---- document reference graph
    g_pc,        \* "spec" | "docs" | "link" | "loaded" | "called" | "KeyError"
    g_meta,      \* the `docs` section: document -> field -> header record
    g_parsed,    \* number of Document objects constructed so far
    g_linked,    \* number of iterations of Documents.model_post_init done
    all_refs,    \* Document._all_refs
    refed_by,    \* Document._refed_by
    doc_name,    \* Document.doc_name
    g_name,      \* Document._name
    hdr_name,    \* document -> field -> <<_name, _doc_name>> of the MetadataHeader
    \* ---- CDDL requires-closure
    c_pc,        \* "spec" | "loaded" | "run" | "done" | "RecursionError" | "KeyError"
    requires,    \* CDDLDefinition.requires of every definition of the registry
    c_root,      \* the root given to cddl_file
    stack,       \* the active calls of _nested_cddl, innermost last
    found,       \* the `found` list threaded through the calls
    visited,     \* the names _nested_cddl was called with, in call order
    cddl_data,   \* the definitions of the text returned, in order of emission
    \* ---- synthesis of the composite header definitions (generators)
    s_pc,        \* "spec" | "post_init" | "loaded" | "KeyError"
    s_headers,   \* header type -> the headers of that set, in `names` order
    cddl_defs,   \* CDDLDefinitions.root
    \* ---- synthesis by SignedDoc.cddl_def (gen_docs)
    l_pc,        \* "spec" | "loaded"
    l_spec,      \* the "metadata" section of the specification file
    l_metadata,  \* _data["metadata"]: key -> raw header
    l_order,     \* _data["metadata_order"]
    l_def,       \* _data["cddlDefinitions"]["Signed_Document_Metadata_Headers"]
    l_calls,     \* what each call of cddl_def returned
    \* ---- rendering of the metadata fields
    r_pc,        \* "spec" | "loaded"
    r_headers,   \* SignedDoc.metadata.headers: key -> MetadataHeader
    r_docs,      \* SignedDoc.docs: document -> its metadata: key -> MetadataHeader
    r_out,       \* what the last get_metadata_as_markdown returned
    \* ---- document clusters
    k_pc,        \* "spec" | "loaded"
    k_docs,      \* DocClusters.root: cluster -> DocCluster.docs
    k_name,      \* cluster -> DocCluster._name
    k_result,    \* what the last cluster query was and returned
    \* ---- base types
    t_pc,        \* "spec" | "loaded"
    t_root,      \* BaseTypes.root: name -> DocTypeId
    t_for_uuid,  \* BaseTypes._for_uuid: the DocTypeId -> name pairs set, in order
    t_result,    \* what the last base type query was and returned
    \* ---- validation text of a metadata field
    v_pc,        \* "spec" | "called"
    v_field,     \* the metadata field get_validation is called on
    v_out,       \* which get_validation was called and what it returned
    \* ---- comment of a CDDL definition
    n_pc,        \* "spec" | "called"
    n_comment,   \* CDDLDefinition.comment, the list of its lines
    n_def,       \* CDDLDefinition.definition, the list of its lines
    n_out,       \* which function was called and what it returned
    \* ---- top-level resolutions of CDDL files in one process
    f_pc,        \* "spec" | "run"
    f_requires,  \* the `requires` list of every definition
    f_default,   \* the list bound to the default of `found` in gen_cddl_file.py
    f_calls,     \* the resolutions done so far: generator, root, text returned
    \* ---- order of the headers of a set
    o_pc,        \* "spec" | "ordered"
    o_order,     \* Metadata.order / CoseDefinitions.headers_order
    o_root,      \* the keys of `headers`, in the order of the object
    o_sig_root,  \* the keys of `signature_headers`, in the order of the object
    o_out        \* per header set ordered: its keys, the list passed, its _order

graphVars == <<g_pc, g_meta, g_parsed, g_linked, all_refs, refed_by, doc_name, g_name, hdr_name>>

cddlVars == <<c_pc, requires, c_root, stack, found, visited, cddl_data>>

synthVars == <<s_pc, s_headers, cddl_defs>>

legacyVars == <<l_pc, l_spec, l_metadata, l_order, l_def, l_calls>>

renderVars == <<r_pc, r_headers, r_docs, r_out>>

clusterVars == <<k_pc, k_docs, k_name, k_result>>

typesVars == <<t_pc, t_root, t_for_uuid, t_result>>

validationVars == <<v_pc, v_field, v_out>>

commentVars == <<n_pc, n_comment, n_def, n_out>>

generateVars == <<f_pc, f_requires, f_default, f_calls>>

orderVars == <<o_pc, o_order, o_root, o_sig_root, o_out>>

vars == <<graphVars, cddlVars, synthVars, legacyVars, renderVars, clusterVars, typesVars, validationVars, commentVars, generateVars, orderVars>>

notGraph == <<cddlVars, synthVars, legacyVars, renderVars, clusterVars, typesVars, validationVars, commentVars, generateVars, orderVars>>
notCddl == <<graphVars, synthVars, legacyVars, renderVars, clusterVars, typesVars, validationVars, commentVars, generateVars, orderVars>>
notSynth == <<graphVars, cddlVars, legacyVars, renderVars, clusterVars, typesVars, validationVars, commentVars, generateVars, orderVars>>
notLegacy == <<graphVars, cddlVars, synthVars, renderVars, clusterVars, typesVars, validationVars, commentVars, generateVars, orderVars>>
notRender == <<graphVars, cddlVars, synthVars, legacyVars, clusterVars, typesVars, validationVars, commentVars, generateVars, orderVars>>
notCluster == <<graphVars, cddlVars, synthVars, legacyVars, renderVars, typesVars, validationVars, commentVars, generateVars, orderVars>>
notTypes == <<graphVars, cddlVars, synthVars, legacyVars, renderVars, clusterVars, validationVars, commentVars, generateVars, orderVars>>
notValidation == <<graphVars, cddlVars, synthVars, legacyVars, renderVars, clusterVars, typesVars, commentVars, generateVars, orderVars>>
notComment == <<graphVars, cddlVars, synthVars, legacyVars, renderVars, clusterVars, typesVars, validationVars, generateVars, orderVars>>
notGenerate == <<graphVars, cddlVars, synthVars, legacyVars, renderVars, clusterVars, typesVars, validationVars, commentVars, orderVars>>
notOrder == <<graphVars, cddlVars, synthVars, legacyVars, renderVars, clusterVars, typesVars, validationVars, commentVars, generateVars>>

\* ------------------------------------------------------------------------
\* Generic helpers
\* ------------------------------------------------------------------------

None == "None"

Range(s) == {s[i] : i \in 1..Len(s)}

\* `x in list`
In(x, s) == x \in Range(s)

\* number of positions of s holding x
Count(x, s) == Cardinality({i \in 1..Len(s) : s[i] = x})

NoDuplicates(s) == \A i, j \in 1..Len(s) : s[i] = s[j] => i = j

RECURSIVE SumLen(_, _)
SumLen(f, S) ==
    IF S = {} THEN 0
    ELSE LET k == CHOOSE k \in S : TRUE IN Len(f[k]) + SumLen(f, S \ {k})

\* every list holding exactly the members of S, each once: what list(set(..))
\* can return (the iteration order of a Python set is not specified).
ListsOfSet(S) ==
    {s \in [1..Cardinality(S) -> S] : Range(s) = S}

\* ------------------------------------------------------------------------
\* The value of a component's variables in the specifications of the others
\* ------------------------------------------------------------------------

GraphIdle ==
    /\ g_pc = "idle"
    /\ g_meta = <<>>
    /\ g_parsed = 0
    /\ g_linked = 0
    /\ all_refs = <<>>
    /\ refed_by = <<>>
    /\ doc_name = <<>>
    /\ g_name = <<>>
    /\ hdr_name = <<>>

CddlIdle ==
    /\ c_pc = "idle"
    /\ requires = <<>>
    /\ c_root = None
    /\ stack = <<>>
    /\ found = <<>>
    /\ visited = <<>>
    /\ cddl_data = <<>>

SynthIdle ==
    /\ s_pc = "idle"
    /\ s_headers = <<>>
    /\ cddl_defs = <<>>

LegacyIdle ==
    /\ l_pc = "idle"
    /\ l_spec = <<>>
    /\ l_metadata = <<>>
    /\ l_order = <<>>
    /\ l_def = <<>>
    /\ l_calls = <<>>

RenderIdle ==
    /\ r_pc = "idle"
    /\ r_headers = <<>>
    /\ r_docs = <<>>
    /\ r_out = <<>>

ClusterIdle ==
    /\ k_pc = "idle"
    /\ k_docs = <<>>
    /\ k_name = <<>>
    /\ k_result = <<>>

TypesIdle ==
    /\ t_pc = "idle"
    /\ t_root = <<>>
    /\ t_for_uuid = <<>>
    /\ t_result = <<>>

ValidationIdle ==
    /\ v_pc = "idle"
    /\ v_field = <<>>
    /\ v_out = <<>>

CommentIdle ==
    /\ n_pc = "idle"
    /\ n_comment = <<>>
    /\ n_def = <<>>
    /\ n_out = <<>>

GenerateIdle ==
    /\ f_pc = "idle"
    /\ f_requires = <<>>
    /\ f_default = <<>>
    /\ f_calls = <<>>

OrderIdle ==
    /\ o_pc = "idle"
    /\ o_order = <<>>
    /\ o_root = <<>>
    /\ o_sig_root = <<>>
    /\ o_out = <<>>

\* ------------------------------------------------------------------------
\* Document reference graph
\* ------------------------------------------------------------------------

\* The documents of the specification, in the order of the `docs` object.
DocOrder == <<"Proposal", "Proposal Form Template">>
DocNames == Range(DocOrder)

\* What a `type` entry may name: the documents and one name that is no document.
Targets == DocNames \cup {"Missing"}

\* The metadata keys of each document, in the order of its `metadata` object.
DocFields ==
    [d \in DocNames |->
        IF d = "Proposal" THEN <<"template", "ref">> ELSE <<"ref">>]

\* Bound: the number of `type` entries written in the whole specification.
MaxRefs == 2

OptionalField == {"yes", "optional", "excluded"}

Formats == {"Document Reference", "Document Id"}

\* raw_type: str | list[str] | None
RawNone == [kind |-> "none", v |-> <<>>]
RawStr(t) == [kind |-> "str", v |-> <<t>>]
RawList(l) == [kind |-> "list", v |-> l]

\* MetadataHeader.fix_list
fix_list(fix) ==
    IF fix.kind = "none" THEN <<>>
    ELSE IF fix.kind = "str" THEN <<fix.v[1]>>
    ELSE fix.v

\* MetadataHeader.type
type(meta) == fix_list(meta.raw_type)

\* MetadataHeaders.names of a document's metadata: no order was set on it,
\* so the keys of the object in their own order.
names(d) == DocFields[d]

\* The loop of Document.model_post_init: all_refs.extend(meta.type) for every
\* Document Reference field.
\* (mutation of collect_refs: the format of the field is not looked at)
RECURSIVE collect_refs_any_format(_, _)
collect_refs_any_format(metadata, keys) ==
    IF keys = <<>> THEN <<>>
    ELSE type(metadata[Head(keys)]) \o collect_refs_any_format(metadata, Tail(keys))

RECURSIVE collect_refs(_, _)
collect_refs(metadata, keys) ==
    IF keys = <<>> THEN <<>>
    ELSE LET meta == metadata[Head(keys)] IN
         (IF meta.format = "Document Reference" THEN type(meta) ELSE <<>>)
            \o collect_refs(metadata, Tail(keys))

\* (mutation of add_referer: the membership test is inverted)
add_referer_inverted(refs, name) ==
    IF In(name, refs) THEN Append(refs, name) ELSE refs

\* (mutation of add_referer: the name is appended whether it is there or not)
add_referer_always(refs, name) == Append(refs, name)

\* Document.add_referer on a _refed_by list
add_referer(refs, name) ==
    IF ~In(name, refs) THEN Append(refs, name) ELSE refs

\* The inner loop of Documents.model_post_init for document `name`:
\* self.root[ref_doc].add_referer(name) for each of its references. A
\* reference that is no key of root raises KeyError; the referers added
\* before it stay added.
\* (mutation of link_refs: a reference that is no document is skipped)
RECURSIVE link_refs_skip_missing(_, _, _)
link_refs_skip_missing(by, name, refs) ==
    IF refs = <<>> THEN [raised |-> FALSE, by |-> by]
    ELSE IF Head(refs) \notin DocNames THEN link_refs_skip_missing(by, name, Tail(refs))
    ELSE link_refs_skip_missing(
            [by EXCEPT ![Head(refs)] = add_referer(by[Head(refs)], name)],
            name, Tail(refs))

RECURSIVE link_refs(_, _, _)
link_refs(by, name, refs) ==
    IF refs = <<>> THEN [raised |-> FALSE, by |-> by]
    ELSE IF Head(refs) \notin DocNames THEN [raised |-> TRUE, by |-> by]
    ELSE link_refs([by EXCEPT ![Head(refs)] = add_referer(by[Head(refs)], name)],
                   name, Tail(refs))

\* The metadata objects a document can have before any `type` is written.
BlankMetadata(d) ==
    [Range(DocFields[d]) ->
        [format : Formats, required : OptionalField, raw_type : {RawNone}]]

GraphStart ==
    /\ g_pc = "spec"
    /\ \E p \in BlankMetadata("Proposal") :
       \E q \in BlankMetadata("Proposal Form Template") :
            g_meta = [d \in DocNames |-> IF d = "Proposal" THEN p ELSE q]
    /\ g_parsed = 0
    /\ g_linked = 0
    /\ all_refs = [d \in DocNames |-> <<>>]
    /\ refed_by = [d \in DocNames |-> <<>>]
    /\ doc_name = [d \in DocNames |-> None]
    /\ g_name = [d \in DocNames |-> None]
    /\ hdr_name = [d \in DocNames |-> [f \in Range(DocFields[d]) |-> <<"Unknown", None>>]]

TotalRefs ==
    LET n(d) == SumLen([f \in Range(DocFields[d]) |-> g_meta[d][f].raw_type.v],
                       Range(DocFields[d]))
    IN  n("Proposal") + n("Proposal Form Template")

\* The author of the specification writes one more `type` entry: a bare
\* string, or a further element of a list.
WriteType(d, f, t) ==
    /\ g_pc = "spec"
    /\ TotalRefs < MaxRefs
    /\ LET raw == g_meta[d][f].raw_type IN
       \/ /\ raw.kind = "none"
          /\ \E new \in {RawStr(t), RawList(<<t>>)} :
                g_meta' = [g_meta EXCEPT ![d][f].raw_type = new]
       \/ /\ raw.kind = "list"
          /\ g_meta' = [g_meta EXCEPT ![d][f].raw_type = RawList(Append(raw.v, t))]
    /\ UNCHANGED <<g_pc, g_parsed, g_linked, all_refs, refed_by, doc_name, g_name, hdr_name>>
    /\ UNCHANGED notGraph

\* SignedDoc.load starts deserializing the `docs` section.
StartLoad ==
    /\ g_pc = "spec"
    /\ g_pc' = "docs"
    /\ UNCHANGED <<g_meta, g_parsed, g_linked, all_refs, refed_by, doc_name, g_name, hdr_name>>
    /\ UNCHANGED notGraph

\* Document.model_post_init of the next document of the section.
DocumentPostInit ==
    /\ g_pc = "docs"
    /\ g_parsed < Len(DocOrder)
    /\ LET d == DocOrder[g_parsed + 1] IN
       \E refs \in ListsOfSet(Range(collect_refs(g_meta[d], names(d)))) :
            all_refs' = [all_refs EXCEPT ![d] = refs]
    /\ g_parsed' = g_parsed + 1
    /\ g_pc' = IF g_parsed + 1 = Len(DocOrder) THEN "link" ELSE "docs"
    /\ UNCHANGED <<g_meta, g_linked, refed_by, doc_name, g_name, hdr_name>>
    /\ UNCHANGED notGraph

\* Document.set_name -> MetadataHeaders.set_name
set_name(hdrs, d) == [f \in DOMAIN hdrs |-> <<f, d>>]

\* One iteration of the loop of Documents.model_post_init. Document.set_name
\* assigns doc_name and stamps the metadata headers; nothing assigns _name.
DocumentsPostInit ==
    /\ g_pc = "link"
    /\ g_linked < Len(DocOrder)
    /\ LET name == DocOrder[g_linked + 1]
           res == link_refs(refed_by, name, all_refs[name])
       IN  /\ doc_name' = [doc_name EXCEPT ![name] = name]
           /\ hdr_name' = [hdr_name EXCEPT ![name] = set_name(hdr_name[name], name)]
           /\ refed_by' = res.by
           /\ IF res.raised
              THEN /\ g_pc' = "KeyError"
                   /\ UNCHANGED g_linked
              ELSE /\ g_linked' = g_linked + 1
                   /\ g_pc' = IF g_linked + 1 = Len(DocOrder) THEN "loaded" ELSE "link"
    /\ UNCHANGED <<g_meta, g_parsed, all_refs, g_name>>
    /\ UNCHANGED notGraph

\* A call of Document.add_referer on a document of the loaded model, the
\* next one after the calls of the load.
AddReferer(d, name) ==
    /\ g_pc = "loaded"
    /\ g_pc' = "called"
    /\ refed_by' = [refed_by EXCEPT ![d] = add_referer(@, name)]
    /\ UNCHANGED <<g_meta, g_parsed, g_linked, all_refs, doc_name, g_name, hdr_name>>
    /\ UNCHANGED notGraph

NextGraph ==
    \/ \E d \in DocNames : \E f \in Range(DocFields[d]) : \E t \in Targets :
            WriteType(d, f, t)
    \/ StartLoad
    \/ DocumentPostInit
    \/ DocumentsPostInit
    \/ \E d \in DocNames : \E name \in DocNames : AddReferer(d, name)

InitGraph == GraphStart /\ CddlIdle /\ SynthIdle /\ LegacyIdle /\ RenderIdle /\ ClusterIdle /\ TypesIdle /\ ValidationIdle /\ CommentIdle /\ GenerateIdle /\ OrderIdle

SpecGraph == InitGraph /\ [][NextGraph]_vars

\* Document.all_references / Document.all_docs_referencing of a loaded model
all_references(d) == all_refs[d]
all_docs_referencing(d) == refed_by[d]

\* Document.name
document_name(d) == IF g_name[d] # None THEN g_name[d] ELSE "Unknown"

Loaded == g_pc = "loaded"

\* What a failed load reports: the KeyError of self.root[ref_doc], raised in
\* the iteration of the document being linked, is the one exception that
\* leaves model_validate_json. It is given here with the document it was
\* raised for.
ReportedErrors ==
    IF g_pc = "KeyError"
    THEN LET name == DocOrder[g_linked + 1] IN
         {<<name, all_refs[name][CHOOSE i \in 1..Len(all_refs[name]) :
                        /\ all_refs[name][i] \notin DocNames
                        /\ \A j \in 1..(i - 1) : all_refs[name][j] \in DocNames]>>}
    ELSE {}

\* ------------------------------------------------------------------------
\* CDDL requires-closure: CDDLDefinitions._nested_cddl and cddl_file
\* ------------------------------------------------------------------------

\* The definitions of the registry, in the order of `cddlDefinitions`.
CddlOrder == <<"signed_document", "headers", "metadata", "uuid">>
CddlNames == Range(CddlOrder)

\* What a `requires` entry may name: the definitions and one name that is no
\* definition.
RequiresTargets == CddlNames \cup {"undefined_type"}

\* The roots cddl_file is asked for.
CddlRoots == {"signed_document"}

\* Bound: the number of `requires` entries written in the whole registry.
MaxRequires == 4

\* Bound: the depth of calls at which the interpreter raises RecursionError.
\* It exceeds the longest chain of distinct definitions.
RecursionLimit == 5

TotalRequires == SumLen(requires, CddlNames)

\* (mutation of is_found: no definition is ever taken as found)
is_found_never(name, found_list) == FALSE

\* `requires in found` of the loop of _nested_cddl
is_found(name, found_list) == In(name, found_list)

\* A call of _nested_cddl(name, found) that has examined no requirement yet.
Frame(name) == [name |-> name, i |-> 1, this_cddl |-> <<>>]

\* The text a call returns: its own definition, then the text of the
\* definitions it required.
nested_text(frame) == <<frame.name>> \o frame.this_cddl

CddlStart ==
    /\ c_pc = "spec"
    /\ requires = [n \in CddlNames |-> <<>>]
    /\ c_root = None
    /\ stack = <<>>
    /\ found = <<>>
    /\ visited = <<>>
    /\ cddl_data = <<>>

\* The author of the specification writes one more `requires` entry.
WriteRequires(n, r) ==
    /\ c_pc = "spec"
    /\ TotalRequires < MaxRequires
    /\ requires' = [requires EXCEPT ![n] = Append(@, r)]
    /\ UNCHANGED <<c_pc, c_root, stack, found, visited, cddl_data>>
    /\ UNCHANGED notCddl

\* SignedDoc.load: CDDLDefinitions.model_post_init names the definitions and
\* reads no `requires`.
CddlLoad ==
    /\ c_pc = "spec"
    /\ c_pc' = "loaded"
    /\ UNCHANGED <<requires, c_root, stack, found, visited, cddl_data>>
    /\ UNCHANGED notCddl

\* cddl_file(root) calls _nested_cddl(root, []).
CddlFile(root) ==
    /\ c_pc = "loaded"
    /\ c_pc' = "run"
    /\ c_root' = root
    /\ stack' = <<Frame(root)>>
    /\ found' = <<>>
    /\ visited' = <<root>>
    /\ UNCHANGED <<requires, cddl_data>>
    /\ UNCHANGED notCddl

\* The loop of the innermost call meets a requirement that is in `found`.
NestedSkip ==
    /\ c_pc = "run"
    /\ LET top == stack[Len(stack)] IN
       /\ top.i <= Len(requires[top.name])
       /\ is_found(requires[top.name][top.i], found)
       /\ stack' = [stack EXCEPT ![Len(stack)].i = top.i + 1]
    /\ UNCHANGED <<c_pc, requires, c_root, found, visited, cddl_data>>
    /\ UNCHANGED notCddl

\* The loop of the innermost call meets a requirement that is not in `found`
\* and calls _nested_cddl for it. Past the interpreter's limit of nested calls
\* the call raises RecursionError, which nothing catches; the call for a name
\* that is no definition raises KeyError in self.get(name).
NestedCall ==
    /\ c_pc = "run"
    /\ LET top == stack[Len(stack)] IN
       /\ top.i <= Len(requires[top.name])
       /\ ~is_found(requires[top.name][top.i], found)
       /\ IF Len(stack) >= RecursionLimit
          THEN /\ c_pc' = "RecursionError"
               /\ UNCHANGED <<stack, visited>>
          ELSE IF requires[top.name][top.i] \notin CddlNames
          THEN /\ c_pc' = "KeyError"
               /\ UNCHANGED <<stack, visited>>
          ELSE /\ stack' = Append(stack, Frame(requires[top.name][top.i]))
               /\ visited' = Append(visited, requires[top.name][top.i])
               /\ UNCHANGED c_pc
    /\ UNCHANGED <<requires, c_root, found, cddl_data>>
    /\ UNCHANGED notCddl

\* The innermost call has examined all its requirements and returns its
\* text. Its caller appends the requirement to `found` and the text to its
\* own; the outermost call returns to cddl_file.
NestedReturn ==
    /\ c_pc = "run"
    /\ LET top == stack[Len(stack)] IN
       /\ top.i > Len(requires[top.name])
       /\ IF Len(stack) = 1
          THEN /\ cddl_data' = nested_text(top)
               /\ c_pc' = "done"
               /\ stack' = <<>>
               /\ UNCHANGED found
          ELSE LET caller == stack[Len(stack) - 1] IN
               /\ found' = Append(found, requires[caller.name][caller.i])
               /\ stack' = Append(SubSeq(stack, 1, Len(stack) - 2),
                                   [caller EXCEPT !.i = caller.i + 1,
                                                  !.this_cddl = @ \o nested_text(top)])
               /\ UNCHANGED <<c_pc, cddl_data>>
    /\ UNCHANGED <<requires, c_root, visited>>
    /\ UNCHANGED notCddl

NextCddl ==
    \/ \E n \in CddlNames : \E r \in RequiresTargets : WriteRequires(n, r)
    \/ CddlLoad
    \/ \E root \in CddlRoots : CddlFile(root)
    \/ NestedSkip
    \/ NestedCall
    \/ NestedReturn

InitCddl == CddlStart /\ GraphIdle /\ SynthIdle /\ LegacyIdle /\ RenderIdle /\ ClusterIdle /\ TypesIdle /\ ValidationIdle /\ CommentIdle /\ GenerateIdle /\ OrderIdle

SpecCddl == InitCddl /\ [][NextCddl]_vars

\* The definitions reachable from n through `requires` in one or more steps.
RECURSIVE ReachFrom(_, _)
ReachFrom(S, k) ==
    IF k = 0 THEN S
    ELSE ReachFrom(S \cup UNION {Range(requires[m]) : m \in S \cap CddlNames}, k - 1)

ReachPlus(n) ==
    ReachFrom(IF n \in CddlNames THEN Range(requires[n]) ELSE {},
              Cardinality(RequiresTargets))
ReachStar(n) == {n} \cup ReachPlus(n)

\* The requires graph below `root` holds a cycle.
CyclicFrom(root) == \E n \in ReachStar(root) : n \in ReachPlus(n)

\* ------------------------------------------------------------------------
\* Synthesis of the composite header definitions:
\* Metadata.custom_metadata_header, called by SignedDoc.model_post_init
\* ------------------------------------------------------------------------

\* HeaderType
HeaderType == {"METADATA", "DOCUMENT", "SIGNATURE"}

\* The keys the headers of each set are registered under, in order.
HeaderKeys ==
    [k \in HeaderType |->
        IF k = "METADATA" THEN <<"id", "ver", "ref">>
        ELSE IF k = "DOCUMENT" THEN <<"content type", "content-encoding", "kid">>
        ELSE <<"kid", "alg", "x5chain">>]

\* Bound: the number of headers written in the whole specification.
MaxHeaders == 2

\* The synthetic definition of each header set.
DefName(k) ==
    IF k = "METADATA" THEN "Signed_Document_Metadata_Headers"
    ELSE IF k = "DOCUMENT" THEN "COSE_Document_Standard_Headers"
    ELSE "COSE_Signature_Standard_Headers"

\* metadata.formats and cose.header_formats: format name -> cddl type.
MetadataFormats == [f \in {"Document Id", "Catalyst ID"} |->
                        IF f = "Document Id" THEN "uuid_v7" ELSE "catalyst_id"]
HeaderFormats == [f \in {"Media Type", "Catalyst ID"} |->
                        IF f = "Media Type" THEN "media_type" ELSE "catalyst_id_kid"]

\* The format registry the headers of a set are resolved in.
FormatsOf(k) == IF k = "METADATA" THEN MetadataFormats ELSE HeaderFormats

\* The format names a header may give.
FormatNames == {"Document Id", "Media Type", "Catalyst ID"}

\* cose_label: str | int | None
NoLabel == [kind |-> "none", s |-> "", n |-> 0]
StrLabel(str) == [kind |-> "str", s |-> str, n |-> 0]
IntLabel(int) == [kind |-> "int", s |-> "", n |-> int]
CoseLabels == {NoLabel, StrLabel("content-encoding"), IntLabel(3)}

Quote(str) == "\"" \o str \o "\""

\* (mutation of label: the map key is the name whatever the cose_label)
label_always_name(header) == Quote(header.name)

\* GenericHeader.label
label(header) ==
    IF header.cose_label.kind = "none" THEN Quote(header.name)
    ELSE IF header.cose_label.kind = "str" THEN Quote(header.cose_label.s)
    ELSE ToString(header.cose_label.n)

\* (mutation of optional_marker: only `optional` headers are marked)
optional_marker_only_optional(required) == IF required = "optional" THEN "?" ELSE ""

\* `optional` of custom_metadata_header
optional_marker(required) == IF required = "yes" THEN "" ELSE "?"

\* textwrap.indent(text, "  ") on the lines of a text without blank lines
indent(lines) == [i \in 1..Len(lines) |-> "  " \o lines[i]]

\* The loop of custom_metadata_header. formats.get raises KeyError for a
\* format that is no key of the registry.
RECURSIVE synth_loop(_, _, _, _)
synth_loop(headers, formats, new_cddl, new_requires) ==
    IF headers = <<>>
    THEN [raised |-> FALSE, new_cddl |-> new_cddl, requires |-> new_requires]
    ELSE LET header == Head(headers) IN
         IF header.format \notin DOMAIN formats
         THEN [raised |-> TRUE, new_cddl |-> new_cddl, requires |-> new_requires]
         ELSE LET cddl_type == formats[header.format]
                  line == optional_marker(header.required) \o label(header)
                            \o " => " \o cddl_type
              IN  synth_loop(Tail(headers), formats, Append(new_cddl, line),
                             IF ~In(cddl_type, new_requires)
                             THEN Append(new_requires, cddl_type)
                             ELSE new_requires)

\* (mutation of custom_metadata_header: the copy keeps the requires it had)
custom_metadata_header_keep_requires(cddl_def, headers, formats) ==
    LET r == synth_loop(headers, formats, <<>>, cddl_def.requires) IN
    [raised |-> r.raised,
     def |-> [cddl_def EXCEPT !.requires = r.requires,
                              !.definition = <<"(">> \o indent(r.new_cddl) \o <<")">>]]

\* Metadata.custom_metadata_header: a copy of cddl_def with the requires and
\* the definition synthesized from the headers. The definition is held as
\* the list of its lines.
custom_metadata_header(cddl_def, headers, formats) ==
    LET r == synth_loop(headers, formats, <<>>, <<>>) IN
    [raised |-> r.raised,
     def |-> [cddl_def EXCEPT !.requires = r.requires,
                              !.definition = <<"(">> \o indent(r.new_cddl) \o <<")">>]]

\* (mutation of add: the registry keeps the definitions it had)
add_nothing(root, definitions) == root

\* CDDLDefinitions.add of a list of definitions
RECURSIVE add(_, _)
add(root, definitions) ==
    IF definitions = <<>> THEN root
    ELSE LET this_def == Head(definitions) IN
         add([n \in DOMAIN root \cup {this_def.name} |->
                IF n = this_def.name THEN this_def ELSE root[n]],
             Tail(definitions))

\* The `cddlDefinitions` section as deserialized: the three definitions the
\* synthesis replaces and one it does not, none of them named yet.
RawDefinition(n) ==
    [definition |-> <<"(", "  placeholder", ")">>,
     requires |-> <<"uuid_v7", "stale_type">>,
     name |-> "Unknown"]

SynthStart ==
    /\ s_pc = "spec"
    /\ s_headers = [k \in HeaderType |-> <<>>]
    /\ cddl_defs = [n \in {DefName(k) : k \in HeaderType} \cup {"uuid_v7"} |->
                        RawDefinition(n)]

TotalHeaders == SumLen(s_headers, HeaderType)

\* The author of the specification writes one more header into a set.
WriteHeader(k, required, format, cose_label) ==
    /\ s_pc = "spec"
    /\ TotalHeaders < MaxHeaders
    /\ Len(s_headers[k]) < Len(HeaderKeys[k])
    /\ s_headers' = [s_headers EXCEPT ![k] =
            Append(@, [key |-> HeaderKeys[k][Len(@) + 1], name |-> "Unknown",
                       required |-> required, format |-> format,
                       cose_label |-> cose_label])]
    /\ UNCHANGED <<s_pc, cddl_defs>>
    /\ UNCHANGED notSynth

\* (mutation of stamp: the headers keep the name they were deserialized with)
stamp_nothing(headers) == headers

\* header.name = name for every header of a set
stamp(headers) == [i \in 1..Len(headers) |-> [headers[i] EXCEPT !.name = headers[i].key]]

\* SignedDoc.load deserializes the sections. CDDLDefinitions.model_post_init
\* gives every definition its key as name; CoseHeaders.model_post_init does
\* so for cose.headers and cose.signature_headers. The metadata headers are
\* not named by their own section.
Deserialize ==
    /\ s_pc = "spec"
    /\ s_pc' = "post_init"
    /\ cddl_defs' = [n \in DOMAIN cddl_defs |-> [cddl_defs[n] EXCEPT !.name = n]]
    /\ s_headers' = [s_headers EXCEPT !["DOCUMENT"] = stamp(@),
                                       !["SIGNATURE"] = stamp(@)]
    /\ UNCHANGED notSynth

\* SignedDoc.model_post_init: the metadata headers are named, the three
\* definitions are synthesized and then added to the registry. A KeyError
\* of one synthesis leaves the registry as it was.
SignedDocPostInit ==
    /\ s_pc = "post_init"
    /\ LET named == stamp(s_headers["METADATA"])
           m == custom_metadata_header(cddl_defs[DefName("METADATA")], named,
                                       MetadataFormats)
           d == custom_metadata_header(cddl_defs[DefName("DOCUMENT")],
                                       s_headers["DOCUMENT"], HeaderFormats)
           g == custom_metadata_header(cddl_defs[DefName("SIGNATURE")],
                                       s_headers["SIGNATURE"], HeaderFormats)
       IN  /\ s_headers' = [s_headers EXCEPT !["METADATA"] = named]
           /\ IF m.raised \/ d.raised \/ g.raised
              THEN /\ s_pc' = "KeyError"
                   /\ UNCHANGED cddl_defs
              ELSE /\ s_pc' = "loaded"
                   /\ cddl_defs' = add(cddl_defs, <<m.def, d.def, g.def>>)
    /\ UNCHANGED notSynth

NextSynth ==
    \/ \E k \in HeaderType : \E required \in OptionalField :
       \E format \in FormatNames : \E cose_label \in CoseLabels :
            WriteHeader(k, required, format, cose_label)
    \/ Deserialize
    \/ SignedDocPostInit

InitSynth == SynthStart /\ GraphIdle /\ CddlIdle /\ LegacyIdle /\ RenderIdle /\ ClusterIdle /\ TypesIdle /\ ValidationIdle /\ CommentIdle /\ GenerateIdle /\ OrderIdle

SpecSynth == InitSynth /\ [][NextSynth]_vars

\* ------------------------------------------------------------------------
\* Synthesis by SignedDoc.cddl_def / synthetic_headers (gen_docs), which
\* works on the raw specification data and knows exclusive groups. The
\* metadata header set is modelled; the two COSE sets run the same code.
\* ------------------------------------------------------------------------

\* The keys of _data["metadata"], in the order of the object.
LegacyKeys == <<"template", "ref", "reply">>

\* The order of Python's str comparison on these keys, used by list.sort.
SortKey == [k \in Range(LegacyKeys) |->
                IF k = "ref" THEN 1 ELSE IF k = "reply" THEN 2 ELSE 3]

\* _data["metadataFormats"]: format name -> cddl type
LegacyFormats == [f \in {"Document Reference", "Section Reference"} |->
                    IF f = "Document Reference" THEN "document_ref" ELSE "section_ref"]

\* Bound: the number of `exclusive` entries written in the whole section.
MaxExclusive == 2

\* Bound: the number of calls of cddl_def followed.
MaxCalls == 2

\* exclusive: list[str] | None
NoExclusive == [kind |-> "none", v |-> <<>>]
ExclusiveList(l) == [kind |-> "list", v |-> l]

\* list.sort on a list of keys
RECURSIVE insert_sorted(_, _)
insert_sorted(x, sorted) ==
    IF sorted = <<>> THEN <<x>>
    ELSE IF SortKey[x] < SortKey[Head(sorted)] THEN <<x>> \o sorted
    ELSE <<Head(sorted)>> \o insert_sorted(x, Tail(sorted))

RECURSIVE sort(_)
sort(l) == IF l = <<>> THEN <<>> ELSE insert_sorted(Head(l), sort(Tail(l)))

\* headers_and_order: the headers missing from the order are appended to it
\* (the list of the raw data itself).
RECURSIVE headers_and_order(_, _)
headers_and_order(header_order, keys) ==
    IF keys = <<>> THEN header_order
    ELSE headers_and_order(
            IF ~In(Head(keys), header_order) THEN Append(header_order, Head(keys))
            ELSE header_order,
            Tail(keys))

\* cddl_type_for_metadata
cddl_type_for_metadata(headers, name) == LegacyFormats[headers[name].format]

\* field_name of synthetic_headers: a metadata header has no coseLabel, so
\* the key itself, quoted as it is a str.
field_name(header) == Quote(header)

\* exclusive.append(header); exclusive.sort() on the list of the raw data:
\* the header's own list is changed in place.
take_exclusive(headers, header) ==
    LET exclusive == sort(Append(headers[header].exclusive.v, header)) IN
    [headers |-> [headers EXCEPT ![header].exclusive = ExclusiveList(exclusive)],
     exclusive |-> exclusive]

\* The first loop of synthetic_headers, over the ordered header names. `acc`
\* holds the raw headers, the lines emitted, the requires and the exclusive
\* sets collected so far.
RECURSIVE header_loop(_, _)
header_loop(header_names, acc) ==
    IF header_names = <<>> THEN acc
    ELSE LET header == Head(header_names)
             header_data == acc.headers[header]
         IN  IF header_data.exclusive.kind # "none"
             THEN LET t == take_exclusive(acc.headers, header) IN
                  header_loop(Tail(header_names),
                      [acc EXCEPT !.headers = t.headers,
                                  !.exclusives =
                                      IF ~In(t.exclusive, @) THEN Append(@, t.exclusive)
                                      ELSE @])
             ELSE LET cddl_type == cddl_type_for_metadata(acc.headers, header)
                      line == optional_marker(header_data.required)
                                \o field_name(header) \o " => " \o cddl_type
                  IN  header_loop(Tail(header_names),
                          [acc EXCEPT !.lines = Append(@, line),
                                      !.requires =
                                          IF ~In(cddl_type, @) THEN Append(@, cddl_type)
                                          ELSE @])

\* The entries of one exclusive set: `<field_name> => <cddl_type>` each.
exclusive_fields(headers, exclusive_set) ==
    [i \in 1..Len(exclusive_set) |->
        field_name(exclusive_set[i]) \o " => "
            \o cddl_type_for_metadata(headers, exclusive_set[i])]

\* The requires after the entries of one exclusive set.
RECURSIVE exclusive_requires(_, _, _)
exclusive_requires(headers, exclusive_set, new_requires) ==
    IF exclusive_set = <<>> THEN new_requires
    ELSE LET cddl_type == cddl_type_for_metadata(headers, Head(exclusive_set)) IN
         exclusive_requires(headers, Tail(exclusive_set),
             IF ~In(cddl_type, new_requires) THEN Append(new_requires, cddl_type)
             ELSE new_requires)

\* The text `? ( e1 // e2 )` of one exclusive set as lines; strip() takes
\* the line break after the closing parenthesis away, so the last line is
\* left open.
block_lines(fields) ==
    <<"? (">>
        \o [i \in 1..Len(fields) |->
                "    " \o fields[i] \o (IF i < Len(fields) THEN " //" ELSE "")]
        \o <<")">>

\* Appends text lines to a text whose last line may be open (`open`): the
\* first of the new lines continues it.
append_text(text, new_lines) ==
    IF text.open
    THEN [lines |-> SubSeq(text.lines, 1, Len(text.lines) - 1)
                        \o <<text.lines[Len(text.lines)] \o Head(new_lines)>>
                        \o Tail(new_lines),
          open |-> TRUE]
    ELSE [lines |-> text.lines \o new_lines, open |-> TRUE]

\* The second loop of synthetic_headers, over the exclusive sets.
RECURSIVE exclusive_loop(_, _, _)
exclusive_loop(headers, exclusives, acc) ==
    IF exclusives = <<>> THEN acc
    ELSE LET fields == exclusive_fields(headers, Head(exclusives)) IN
         exclusive_loop(headers, Tail(exclusives),
             [text |-> append_text(acc.text, block_lines(fields)),
              blocks |-> Append(acc.blocks, fields),
              requires |-> exclusive_requires(headers, Head(exclusives), acc.requires)])

\* defs["def"] = "(\n" + textwrap.indent(cddl_def, "  ") + ")" as lines
wrap_definition(text) ==
    IF text.open
    THEN <<"(">> \o indent(SubSeq(text.lines, 1, Len(text.lines) - 1))
              \o <<"  " \o text.lines[Len(text.lines)] \o ")">>
    ELSE <<"(">> \o indent(text.lines) \o <<")">>

\* synthetic_headers(defs, HeaderType.METADATA) on the raw data. The result
\* gives the raw data as the call leaves it and the definition returned;
\* `lines` and `blocks` name the parts of the definition text.
synthetic_headers(headers, order) ==
    LET header_names == headers_and_order(order, LegacyKeys)
        first == header_loop(header_names,
                    [headers |-> headers, lines |-> <<>>, requires |-> <<>>,
                     exclusives |-> <<>>])
        second == exclusive_loop(first.headers, first.exclusives,
                    [text |-> [lines |-> first.lines, open |-> FALSE],
                     blocks |-> <<>>, requires |-> first.requires])
    IN  [headers |-> first.headers,
         order |-> header_names,
         defs |-> [def |-> wrap_definition(second.text),
                   requires |-> second.requires,
                   lines |-> first.lines,
                   blocks |-> second.blocks]]

\* The raw metadata headers before any `exclusive` is written.
BlankLegacyMetadata ==
    [Range(LegacyKeys) ->
        [required : OptionalField, format : DOMAIN LegacyFormats,
         exclusive : {NoExclusive}]]

LegacyStart ==
    /\ l_pc = "spec"
    /\ l_spec \in BlankLegacyMetadata
    /\ l_metadata = <<>>
    /\ l_order = <<"reply">>
    /\ l_def = [def |-> <<"(", "  placeholder", ")">>,
                requires |-> <<"document_ref", "stale_type">>,
                lines |-> <<>>, blocks |-> <<>>]
    /\ l_calls = <<>>

TotalExclusive ==
    SumLen([k \in Range(LegacyKeys) |-> l_spec[k].exclusive.v], Range(LegacyKeys))

\* The author of the specification writes one more `exclusive` entry.
WriteExclusive(header, other) ==
    /\ l_pc = "spec"
    /\ TotalExclusive < MaxExclusive
    /\ l_spec' = [l_spec EXCEPT ![header].exclusive =
                        ExclusiveList(Append(@.v, other))]
    /\ UNCHANGED <<l_pc, l_metadata, l_order, l_def, l_calls>>
    /\ UNCHANGED notLegacy

\* SignedDoc.load (gen_docs): the file is read and the raw data kept as _data.
LegacyLoad ==
    /\ l_pc = "spec"
    /\ l_pc' = "loaded"
    /\ l_metadata' = l_spec
    /\ UNCHANGED <<l_spec, l_order, l_def, l_calls>>
    /\ UNCHANGED notLegacy

\* cddl_def("Signed_Document_Metadata_Headers")
CddlDef ==
    /\ l_pc = "loaded"
    /\ Len(l_calls) < MaxCalls
    /\ LET r == synthetic_headers(l_metadata, l_order) IN
       /\ l_metadata' = r.headers
       /\ l_order' = r.order
       /\ l_def' = r.defs
       /\ l_calls' = Append(l_calls, r.defs)
    /\ UNCHANGED <<l_pc, l_spec>>
    /\ UNCHANGED notLegacy

NextLegacy ==
    \/ \E header \in Range(LegacyKeys) : \E other \in Range(LegacyKeys) :
            WriteExclusive(header, other)
    \/ LegacyLoad
    \/ CddlDef

InitLegacy == LegacyStart /\ GraphIdle /\ CddlIdle /\ SynthIdle /\ RenderIdle /\ ClusterIdle /\ TypesIdle /\ ValidationIdle /\ CommentIdle /\ GenerateIdle /\ OrderIdle

SpecLegacy == InitLegacy /\ [][NextLegacy]_vars

\* ------------------------------------------------------------------------
\* Rendering of the metadata fields as markdown
\* (MetadataHeader.metadata_as_markdown, SignedDoc.get_metadata_as_markdown)
\* A text is a list of rows; a row is its line and the part of the field's
\* display the line belongs to.
\* The backquote of the markdown is written ' in the lines.
\* ------------------------------------------------------------------------

\* metadata.order, which names every header: MetadataHeaders.names after
\* Metadata.model_post_init has set the order.
RenderKeys == <<"type", "ref">>

\* The documents and Documents.type of each.
RenderDocs == {"Proposal"}
DocTypeOf == [d \in RenderDocs |-> "7808d2ba-d511-40af-84e8-c0d1625fdfdc"]

\* Bound: the number of optional attributes written in the whole
\* specification.
MaxOptions == 1

Options == {"multiple", "type", "linked_refs", "validation"}

Row(kind, text) == [row |-> kind, text |-> text]
BlankRow == Row("blank", "")

\* MetadataHeader.linked_refs
linked_refs(header) == fix_list(header.raw_linked_refs)

\* str.strip on a text: the blank lines at both ends go.
RECURSIVE strip_head(_)
strip_head(rows) ==
    IF rows # <<>> /\ Head(rows).text = "" THEN strip_head(Tail(rows)) ELSE rows

RECURSIVE strip_tail(_)
strip_tail(rows) ==
    IF rows # <<>> /\ rows[Len(rows)].text = ""
    THEN strip_tail(SubSeq(rows, 1, Len(rows) - 1)) ELSE rows

strip(rows) == strip_tail(strip_head(rows))

\* (mutation of linked_clauses: only the first entry gets a clause)
linked_clauses_first_only(refs, name) ==
    IF refs = <<>> THEN <<>>
    ELSE <<BlankRow, BlankRow,
           Row("validation", "* The Document referenced by '" \o Head(refs) \o "'"),
           Row("validation", "  * MUST contain '" \o name \o "' metadata; AND"),
           Row("validation", "  * MUST match the referencing documents '" \o name \o "' value.")>>

\* (mutation of linked_clauses: the entry and the field change places)
RECURSIVE linked_clauses_swapped(_, _)
linked_clauses_swapped(refs, name) ==
    IF refs = <<>> THEN <<>>
    ELSE <<BlankRow, BlankRow,
           Row("validation", "* The Document referenced by '" \o name \o "'"),
           Row("validation", "  * MUST contain '" \o Head(refs) \o "' metadata; AND"),
           Row("validation", "  * MUST match the referencing documents '" \o Head(refs) \o "' value.")>>
         \o linked_clauses_swapped(Tail(refs), name)

\* The clauses get_validation adds for the linked references.
RECURSIVE linked_clauses(_, _)
linked_clauses(refs, name) ==
    IF refs = <<>> THEN <<>>
    ELSE <<BlankRow, BlankRow,
           Row("validation", "* The Document referenced by '" \o Head(refs) \o "'"),
           Row("validation", "  * MUST contain '" \o name \o "' metadata; AND"),
           Row("validation", "  * MUST match the referencing documents '" \o name \o "' value.")>>
         \o linked_clauses(Tail(refs), name)

\* MetadataHeader.get_validation
get_validation(header) ==
    strip((IF header.validation # None THEN <<Row("validation", header.validation)>>
           ELSE <<Row("validation", "")>>)
          \o linked_clauses(linked_refs(header), header.name))

\* (mutation of is_excluded: no header counts as excluded)
is_excluded_never(header) == FALSE

\* MetadataHeader.is_excluded
is_excluded(header) == header.required = "excluded"

\* The rows of the references, the heading on the first of them only.
reference_rows(kind, refs, texts) ==
    [i \in 1..Len(refs) |->
        Row(kind, "| " \o (IF i = 1 THEN kind ELSE "") \o " | " \o texts[i] \o " |")]

\* MetadataHeader.metadata_as_markdown(doc_type)
metadata_as_markdown(header, doc_type) ==
    <<BlankRow,
      Row("title", "### '" \o header.name \o "'"),
      BlankRow,
      Row("lint", "<!-- markdownlint-disable MD033 -->"),
      Row("table", "| Parameter | Value |"),
      Row("table", "| --- | --- |"),
      Row("Required", "| Required | " \o header.required \o " |")>>
    \o (IF ~is_excluded(header)
        THEN <<Row("Format", "| Format | '" \o header.format \o "' |")>>
             \o (IF header.name = "type" /\ doc_type # None
                 THEN <<Row("Type", "| Type | " \o doc_type \o " |")>> ELSE <<>>)
             \o (IF header.multiple
                 THEN <<Row("Multiple References", "| Multiple References | True |")>>
                 ELSE <<>>)
             \o reference_rows("Valid References", type(header),
                    [i \in 1..Len(type(header)) |-> "'" \o type(header)[i] \o "'"])
             \o reference_rows("Linked Reference Metadata", linked_refs(header),
                    [i \in 1..Len(linked_refs(header)) |->
                        "['" \o linked_refs(header)[i] \o "'](#"
                            \o linked_refs(header)[i] \o ")"])
             \o <<Row("lint", "<!-- markdownlint-enable MD033 -->"),
                  Row("description", header.description),
                  BlankRow,
                  Row("validation title", "#### '" \o header.name \o "' Validation"),
                  BlankRow>>
             \o get_validation(header)
        ELSE <<>>)

\* SignedDoc.get_metadata: the header of the global set, or of the document,
\* named again by set_name.
get_metadata(headers, docs, metadata_name, of_doc) ==
    LET raw_metadata_def == IF of_doc = None THEN headers[metadata_name]
                            ELSE docs[of_doc][metadata_name]
    IN  [raw_metadata_def EXCEPT !.name = metadata_name, !.doc_name = of_doc]

\* The loop of SignedDoc.get_metadata_as_markdown over the field names. The
\* result gives the headers as get_metadata leaves them and the display of
\* every field that was rendered.
RECURSIVE markdown_loop(_, _, _, _, _)
markdown_loop(fields, headers, docs, of_doc, parts) ==
    IF fields = <<>> THEN [headers |-> headers, docs |-> docs, parts |-> parts]
    ELSE LET field == Head(fields)
             doc_type == IF of_doc # None THEN DocTypeOf[of_doc] ELSE None
             metadata_def == get_metadata(headers, docs, field, of_doc)
             headers1 == IF of_doc = None
                         THEN [headers EXCEPT ![field] = metadata_def] ELSE headers
             docs1 == IF of_doc # None
                      THEN [docs EXCEPT ![of_doc][field] = metadata_def] ELSE docs
         IN  markdown_loop(Tail(fields), headers1, docs1, of_doc,
                 IF of_doc = None \/ metadata_def.required # "excluded"
                 THEN Append(parts, [field |-> field,
                                     rows |-> metadata_as_markdown(metadata_def, doc_type)])
                 ELSE parts)

\* field_display, the displays one after the other
RECURSIVE field_display(_)
field_display(parts) ==
    IF parts = <<>> THEN <<>> ELSE Head(parts).rows \o field_display(Tail(parts))

\* A header as deserialized, no optional attribute given.
BlankHeaders ==
    [Range(RenderKeys) ->
        [required : OptionalField, format : {"Document Reference"},
         multiple : {FALSE}, raw_type : {RawNone}, raw_linked_refs : {RawNone},
         validation : {None}, description : {"The field."},
         name : {"Unknown"}, doc_name : {None}]]

RenderStart ==
    /\ r_pc = "spec"
    /\ r_headers \in BlankHeaders
    /\ r_docs \in [RenderDocs -> BlankHeaders]
    /\ r_out = <<>>

IsWritten(header, option) ==
    CASE option = "multiple" -> header.multiple
      [] option = "type" -> header.raw_type # RawNone
      [] option = "linked_refs" -> header.raw_linked_refs # RawNone
      [] option = "validation" -> header.validation # None

TotalOptions ==
    Cardinality({<<k, o>> \in Range(RenderKeys) \X Options : IsWritten(r_headers[k], o)})
    + Cardinality({<<d, k, o>> \in RenderDocs \X Range(RenderKeys) \X Options :
                        IsWritten(r_docs[d][k], o)})

WithOption(header, option) ==
    CASE option = "multiple" -> [header EXCEPT !.multiple = TRUE]
      [] option = "type" -> [header EXCEPT !.raw_type = RawStr("Proposal Form Template")]
      [] option = "linked_refs" -> [header EXCEPT !.raw_linked_refs = RawList(<<"template">>)]
      [] option = "validation" -> [header EXCEPT !.validation = "Must be a known document."]

\* The author of the specification gives a header one more attribute, in
\* the global set (scope None) or in a document.
WriteOption(scope, key, option) ==
    /\ r_pc = "spec"
    /\ TotalOptions < MaxOptions
    /\ IF scope = None
       THEN /\ ~IsWritten(r_headers[key], option)
            /\ r_headers' = [r_headers EXCEPT ![key] = WithOption(@, option)]
            /\ UNCHANGED r_docs
       ELSE /\ ~IsWritten(r_docs[scope][key], option)
            /\ r_docs' = [r_docs EXCEPT ![scope][key] = WithOption(@, option)]
            /\ UNCHANGED r_headers
    /\ UNCHANGED <<r_pc, r_out>>
    /\ UNCHANGED notRender

\* SignedDoc.load: Documents.model_post_init names the headers of every
\* document, SignedDoc.model_post_init those of the global set.
RenderLoad ==
    /\ r_pc = "spec"
    /\ r_pc' = "loaded"
    /\ r_docs' = [d \in RenderDocs |-> [k \in Range(RenderKeys) |->
                    [r_docs[d][k] EXCEPT !.name = k, !.doc_name = d]]]
    /\ r_headers' = [k \in Range(RenderKeys) |->
                        [r_headers[k] EXCEPT !.name = k, !.doc_name = None]]
    /\ UNCHANGED r_out
    /\ UNCHANGED notRender

\* SignedDoc.get_metadata_as_markdown(doc_name), of_doc its argument
GetMetadataAsMarkdown(of_doc) ==
    /\ r_pc = "loaded"
    /\ LET r == markdown_loop(RenderKeys, r_headers, r_docs, of_doc, <<>>) IN
       /\ r_headers' = r.headers
       /\ r_docs' = r.docs
       /\ r_out' = [doc_name |-> of_doc, parts |-> r.parts,
                    text |-> strip(field_display(r.parts))]
    /\ UNCHANGED r_pc
    /\ UNCHANGED notRender

NextRender ==
    \/ \E scope \in {None} \cup RenderDocs : \E key \in Range(RenderKeys) :
            \E option \in Options : WriteOption(scope, key, option)
    \/ RenderLoad
    \/ \E of_doc \in {None} \cup RenderDocs : GetMetadataAsMarkdown(of_doc)

InitRender == RenderStart /\ GraphIdle /\ CddlIdle /\ SynthIdle /\ LegacyIdle /\ ClusterIdle /\ TypesIdle /\ ValidationIdle /\ CommentIdle /\ GenerateIdle /\ OrderIdle

SpecRender == InitRender /\ [][NextRender]_vars

\* ------------------------------------------------------------------------
\* Document clusters (DocCluster, DocClusters)
\* ------------------------------------------------------------------------

\* The keys of the clusters object, in its order.
ClusterOrder == <<"Proposal Submission", "Proposal Moderation">>
ClusterNames == Range(ClusterOrder)

\* The names a cluster's docs list and a reference list may hold.
ClusterDocs == {"Proposal", "Proposal Comment", "Proposal Form Template"}

\* Bound: the number of docs entries written in all the clusters.
MaxMembers == 3

\* Bound: the length of the reference list given to for_ref.
MaxRefLen == 2

RefLists == UNION {[1..n -> ClusterDocs] : n \in 0..MaxRefLen}

\* (mutation of is_cluster: every name of the list is a member)
is_cluster_subset(docs, match) == Range(match) \subseteq Range(docs)

\* DocCluster.is_cluster: Counter(self.docs) == Counter(match)
is_cluster(docs, match) ==
    \A x \in Range(docs) \cup Range(match) : Count(x, docs) = Count(x, match)

\* DocCluster.is_in_cluster
is_in_cluster(docs, match) == In(match, docs)

\* The scan of DocClusters.for_ref, .get and .name over root.values(): the
\* first cluster that passes the test (is one of `passing`), or None.
RECURSIVE first_cluster(_, _)
first_cluster(clusters, passing) ==
    IF clusters = <<>> THEN None
    ELSE IF Head(clusters) \in passing THEN Head(clusters)
    ELSE first_cluster(Tail(clusters), passing)

\* DocClusters.for_ref: the cluster found, named here by its key
for_ref(root, ref) ==
    first_cluster(ClusterOrder, {c \in ClusterNames : is_cluster(root[c], ref)})

\* DocClusters.get: the cluster found, named here by its key
cluster_get(root, of_doc) ==
    first_cluster(ClusterOrder, {c \in ClusterNames : is_in_cluster(root[c], of_doc)})

\* DocClusters.name: the _name of the cluster found
cluster_name(root, cnames, of_doc) ==
    LET c == cluster_get(root, of_doc) IN IF c = None THEN None ELSE cnames[c]

ClusterStart ==
    /\ k_pc = "spec"
    /\ k_docs = [c \in ClusterNames |-> <<>>]
    /\ k_name = [c \in ClusterNames |-> "Unknown"]
    /\ k_result = <<>>

TotalMembers == SumLen(k_docs, ClusterNames)

\* The author of the specification writes one more entry of a cluster's docs.
WriteMember(c, d) ==
    /\ k_pc = "spec"
    /\ TotalMembers < MaxMembers
    /\ k_docs' = [k_docs EXCEPT ![c] = Append(@, d)]
    /\ UNCHANGED <<k_pc, k_name, k_result>>
    /\ UNCHANGED notCluster

\* SignedDoc.load: DocClusters.model_post_init names every cluster.
ClusterLoad ==
    /\ k_pc = "spec"
    /\ k_pc' = "loaded"
    /\ k_name' = [c \in ClusterNames |-> c]
    /\ UNCHANGED <<k_docs, k_result>>
    /\ UNCHANGED notCluster

\* DocClusters.for_ref(ref)
ForRef(ref) ==
    /\ k_pc = "loaded"
    /\ k_result' = [op |-> "for_ref", ref |-> ref, doc |-> None,
                    value |-> for_ref(k_docs, ref)]
    /\ UNCHANGED <<k_pc, k_docs, k_name>>
    /\ UNCHANGED notCluster

\* DocClusters.get(doc_name)
ClusterGet(of_doc) ==
    /\ k_pc = "loaded"
    /\ k_result' = [op |-> "get", ref |-> <<>>, doc |-> of_doc,
                    value |-> cluster_get(k_docs, of_doc)]
    /\ UNCHANGED <<k_pc, k_docs, k_name>>
    /\ UNCHANGED notCluster

\* DocClusters.name(doc_name)
ClusterName(of_doc) ==
    /\ k_pc = "loaded"
    /\ k_result' = [op |-> "name", ref |-> <<>>, doc |-> of_doc,
                    value |-> cluster_name(k_docs, k_name, of_doc)]
    /\ UNCHANGED <<k_pc, k_docs, k_name>>
    /\ UNCHANGED notCluster

NextCluster ==
    \/ \E c \in ClusterNames : \E d \in ClusterDocs : WriteMember(c, d)
    \/ ClusterLoad
    \/ \E ref \in RefLists : ForRef(ref)
    \/ \E d \in ClusterDocs : ClusterGet(d)
    \/ \E d \in ClusterDocs : ClusterName(d)

InitCluster ==
    ClusterStart /\ GraphIdle /\ CddlIdle /\ SynthIdle /\ LegacyIdle /\ RenderIdle /\ TypesIdle /\ ValidationIdle /\ CommentIdle /\ GenerateIdle /\ OrderIdle

SpecCluster == InitCluster /\ [][NextCluster]_vars

\* ------------------------------------------------------------------------
\* Base document types (BaseTypes)
\* ------------------------------------------------------------------------

\* The keys of the base types object, in its order.
BaseTypeOrder == <<"Action", "Brand", "Proposal">>
BaseTypeNames == Range(BaseTypeOrder)

\* The DocTypeId values the specification may give.
DocTypeIds ==
    {"5e60e623-ad02-4a1b-a1ac-406db978ee48", "ebcabeeb-5bc5-4f95-91e8-cab8ca724172",
     "7808d2ba-d511-40af-84e8-c0d1625fdfdc"}

\* dict[key] = value on a dict held as its list of items: the value of an
\* existing key is replaced where the key stands, a new key comes last.
RECURSIVE dict_set(_, _, _)
dict_set(items, key, value) ==
    IF items = <<>> THEN <<[key |-> key, value |-> value]>>
    ELSE IF Head(items).key = key
         THEN <<[key |-> key, value |-> value]>> \o Tail(items)
         ELSE <<Head(items)>> \o dict_set(Tail(items), key, value)

\* dict[key]: the value, or KeyError
dict_get(items, key) ==
    IF \E i \in 1..Len(items) : items[i].key = key
    THEN [raised |-> FALSE,
          value |-> items[CHOOSE i \in 1..Len(items) : items[i].key = key].value]
    ELSE [raised |-> TRUE, value |-> "KeyError"]

\* The loop of BaseTypes.model_post_init: self._for_uuid[v] = k
RECURSIVE reverse_lookup(_, _, _)
reverse_lookup(root, keys, for_uuid) ==
    IF keys = <<>> THEN for_uuid
    ELSE reverse_lookup(root, Tail(keys), dict_set(for_uuid, root[Head(keys)], Head(keys)))

\* BaseTypes.uuid
base_uuid(root, name) == root[name]

\* BaseTypes.name
base_name(for_uuid, uuid) == dict_get(for_uuid, uuid)

TypesStart ==
    /\ t_pc = "spec"
    /\ t_root \in [BaseTypeNames -> DocTypeIds]
    /\ t_for_uuid = <<>>
    /\ t_result = <<>>

\* SignedDoc.load: BaseTypes.model_post_init builds the reverse lookup.
TypesLoad ==
    /\ t_pc = "spec"
    /\ t_pc' = "loaded"
    /\ t_for_uuid' = reverse_lookup(t_root, BaseTypeOrder, <<>>)
    /\ UNCHANGED <<t_root, t_result>>
    /\ UNCHANGED notTypes

\* BaseTypes.uuid(name)
BaseUuid(name) ==
    /\ t_pc = "loaded"
    /\ t_result' = [op |-> "uuid", arg |-> name, raised |-> FALSE,
                    value |-> base_uuid(t_root, name)]
    /\ UNCHANGED <<t_pc, t_root, t_for_uuid>>
    /\ UNCHANGED notTypes

\* BaseTypes.name(uuid)
BaseName(uuid) ==
    /\ t_pc = "loaded"
    /\ LET r == base_name(t_for_uuid, uuid) IN
       t_result' = [op |-> "name", arg |-> uuid, raised |-> r.raised, value |-> r.value]
    /\ UNCHANGED <<t_pc, t_root, t_for_uuid>>
    /\ UNCHANGED notTypes

NextTypes ==
    \/ TypesLoad
    \/ \E name \in BaseTypeNames : BaseUuid(name)
    \/ \E uuid \in DocTypeIds : BaseName(uuid)

InitTypes ==
    TypesStart /\ GraphIdle /\ CddlIdle /\ SynthIdle /\ LegacyIdle /\ RenderIdle /\ ClusterIdle /\ ValidationIdle /\ CommentIdle /\ GenerateIdle /\ OrderIdle

SpecTypes == InitTypes /\ [][NextTypes]_vars

\* ------------------------------------------------------------------------
\* Validation text of a metadata field: get_validation of the generators
\* package (MetadataHeader), of gen_docs/spec/metadata.py (Metadata) and of
\* gen_docs/metadata_spec.py (Metadata). A text is the list of its lines.
\* The backquote of the markdown is written ' in the lines and the
\* apostrophe of Python's repr is written as a double quote.
\* ------------------------------------------------------------------------

\* The names a metadata field, an `exclusive` member or a linked_refs entry
\* can have.
ValidationFields == {"category_id", "campaign_id", "template"}

\* MetadataHeader._doc_name: the global set, or the document X.
ValidationDocs == {None, "X"}

\* Bound: the number of members of the `exclusive` list.
MaxExclusiveMembers == 3

\* Bound: the number of entries of the linked_refs list.
MaxLinkedRefs == 2

\* Metadata.exclusive (gen_docs), Metadata.get_exclusive (metadata_spec.py)
exclusive_of(field) == fix_list(field.raw_exclusive)

\* exclusive_def of gen_docs/spec/metadata.py, the lines that follow each of
\* its line breaks: the first member, the members of exclusive[1:-1], and
\* the last member after "and".
exclusive_def(exclusive) ==
    <<"'" \o exclusive[1] \o "'">>
    \o (IF Len(exclusive) > 1
        THEN (IF Len(exclusive) > 2
              THEN [i \in 1..(Len(exclusive) - 2) |-> ", '" \o exclusive[i + 1] \o "'"]
              ELSE <<>>)
             \o <<"and '" \o exclusive[Len(exclusive)] \o "'">>
        ELSE <<>>)

\* The note about the exclusive fields, gen_docs/spec/metadata.py.
exclusive_note(exclusive) ==
    IF Len(exclusive) > 0
    THEN LET d == exclusive_def(exclusive) IN
         <<Row("validation", "* MUST NOT be present in any document that contains ")>>
         \o [i \in 1..Len(d) |->
                Row("validation", d[i] \o (IF i = Len(d) THEN " metadata." ELSE ""))]
    ELSE <<>>

\* repr of a list of str
RECURSIVE repr_items(_)
repr_items(l) ==
    IF l = <<>> THEN ""
    ELSE Quote(Head(l)) \o (IF Tail(l) # <<>> THEN ", " ELSE "") \o repr_items(Tail(l))

repr_list(l) == "[" \o repr_items(l) \o "]"

\* The note about the exclusive fields, gen_docs/metadata_spec.py: it builds
\* exclusive_def and then formats the list itself into the line.
exclusive_note_metadata_spec(exclusive) ==
    IF exclusive # <<>>
    THEN <<Row("validation", "* MUST NOT be present in any document that contains "
                                \o repr_list(exclusive) \o " metadata.")>>
    ELSE <<>>

\* The clauses of the linked references in gen_docs: no blank line between.
RECURSIVE linked_clauses_gen_docs(_, _)
linked_clauses_gen_docs(refs, name) ==
    IF refs = <<>> THEN <<>>
    ELSE <<Row("validation", "* The Document referenced by '" \o Head(refs) \o "'"),
           Row("validation", "  * MUST contain '" \o name \o "' metadata; AND"),
           Row("validation", "  * MUST match the referencing documents '" \o name \o "' value.")>>
         \o linked_clauses_gen_docs(Tail(refs), name)

\* What a call returned, or the exception it raised.
Returned(rows) == [raised |-> "", rows |-> rows]
Raised(exception) == [raised |-> exception, rows |-> <<>>]

\* Metadata.get_validation of gen_docs/spec/metadata.py, given the note it
\* adds. `validation` may be null: += on it raises TypeError, strip on it
\* AttributeError.
gen_docs_validation(field, note) ==
    LET clauses == note \o linked_clauses_gen_docs(linked_refs(field), field.name) IN
    IF field.validation = None
    THEN Raised(IF clauses # <<>> THEN "TypeError" ELSE "AttributeError")
    ELSE Returned(strip(<<Row("validation", field.validation)>> \o clauses))

\* Metadata.get_validation, gen_docs/spec/metadata.py
get_validation_gen_docs(field) ==
    gen_docs_validation(field, exclusive_note(exclusive_of(field)))

\* Metadata.get_validation, gen_docs/metadata_spec.py
get_validation_metadata_spec(field) ==
    gen_docs_validation(field, exclusive_note_metadata_spec(exclusive_of(field)))

ValidationStart ==
    /\ v_pc = "spec"
    /\ v_field \in [name : ValidationFields, doc_name : ValidationDocs,
                    validation : {None, "Must be valid."},
                    raw_exclusive : {RawNone}, raw_linked_refs : {RawNone}]
    /\ v_out = <<>>

\* The author of the specification writes one more member of `exclusive`.
WriteExclusiveMember(member) ==
    /\ v_pc = "spec"
    /\ Len(exclusive_of(v_field)) < MaxExclusiveMembers
    /\ v_field' = [v_field EXCEPT !.raw_exclusive = RawList(Append(exclusive_of(v_field), member))]
    /\ UNCHANGED <<v_pc, v_out>>
    /\ UNCHANGED notValidation

\* The author of the specification writes one more entry of linked_refs.
WriteLinkedRef(ref) ==
    /\ v_pc = "spec"
    /\ Len(linked_refs(v_field)) < MaxLinkedRefs
    /\ v_field' = [v_field EXCEPT !.raw_linked_refs = RawList(Append(linked_refs(v_field), ref))]
    /\ UNCHANGED <<v_pc, v_out>>
    /\ UNCHANGED notValidation

\* MetadataHeader.get_validation of the generators package, whose headers
\* have no `exclusive` attribute (extra = "forbid").
GetValidation ==
    /\ v_pc = "spec"
    /\ v_field.raw_exclusive = RawNone
    /\ v_pc' = "called"
    /\ v_out' = [impl |-> "generators", res |-> Returned(get_validation(v_field))]
    /\ UNCHANGED v_field
    /\ UNCHANGED notValidation

\* Metadata.get_validation of gen_docs/spec/metadata.py
GetValidationGenDocs ==
    /\ v_pc = "spec"
    /\ v_pc' = "called"
    /\ v_out' = [impl |-> "gen_docs", res |-> get_validation_gen_docs(v_field)]
    /\ UNCHANGED v_field
    /\ UNCHANGED notValidation

\* Metadata.get_validation of gen_docs/metadata_spec.py
GetValidationMetadataSpec ==
    /\ v_pc = "spec"
    /\ v_pc' = "called"
    /\ v_out' = [impl |-> "metadata_spec", res |-> get_validation_metadata_spec(v_field)]
    /\ UNCHANGED v_field
    /\ UNCHANGED notValidation

NextValidation ==
    \/ \E member \in ValidationFields : WriteExclusiveMember(member)
    \/ \E ref \in ValidationFields : WriteLinkedRef(ref)
    \/ GetValidation
    \/ GetValidationGenDocs
    \/ GetValidationMetadataSpec

InitValidation ==
    ValidationStart /\ GraphIdle /\ CddlIdle /\ SynthIdle /\ LegacyIdle /\ RenderIdle /\ ClusterIdle /\ TypesIdle /\ CommentIdle /\ GenerateIdle /\ OrderIdle

SpecValidation == InitValidation /\ [][NextValidation]_vars

\* ------------------------------------------------------------------------
\* Comment of a CDDL definition: CDDLDefinitions._add_cddl_comments and the
\* text _nested_cddl builds for one definition. A text is held as the list
\* of its lines; the empty list is the empty string.
\* ------------------------------------------------------------------------

\* The lines a comment is written from; none has blanks at its ends.
CommentLines == {"", "A version 7 UUID.", "See RFC 9562."}

\* Bound: the number of lines of a comment.
MaxCommentLines == 3

\* The definitions a comment is attached to: one line, and several lines.
DefinitionTexts == {<<"#6.37(bytes .size 16)">>, <<"[", "  1* uuid_v7", "]">>}

\* str.strip on a text whose lines have no blanks at their ends: the empty
\* lines at both ends go.
RECURSIVE strip_lines_head(_)
strip_lines_head(lines) ==
    IF lines # <<>> /\ Head(lines) = "" THEN strip_lines_head(Tail(lines)) ELSE lines

RECURSIVE strip_lines_tail(_)
strip_lines_tail(lines) ==
    IF lines # <<>> /\ lines[Len(lines)] = ""
    THEN strip_lines_tail(SubSeq(lines, 1, Len(lines) - 1)) ELSE lines

strip_lines(lines) == strip_lines_tail(strip_lines_head(lines))

\* CDDLDefinitions._add_cddl_comments: the marked comment, and the flag.
add_cddl_comments(comment) ==
    LET comment_lines == strip_lines(comment) IN
    [comment |-> [i \in 1..Len(comment_lines) |-> "; " \o comment_lines[i]],
     multiline |-> Len(comment_lines) > 0]

\* The lines a string gives where an f-string holds it between line breaks.
AsLines(text) == IF text = <<>> THEN <<"">> ELSE text

\* _nested_cddl from the comment on, for a definition whose requirements
\* gave this_cddl. A comment given as <<"">> is the string of one line break.
nested_cddl_text(name, definition, comment, this_cddl) ==
    LET cddl_def == strip_lines(definition)
        cddl_def_multiline == Len(cddl_def) > 1
        marked == add_cddl_comments(comment)
        moved == comment # <<>> /\ (marked.multiline \/ cddl_def_multiline)
        leading_comment == IF moved THEN marked.comment ELSE <<>>
        trailing == IF comment = <<>> THEN <<"">>
                    ELSE IF moved THEN <<"", "">>
                    ELSE AsLines(marked.comment)
        first == [i \in 1..Len(cddl_def) |->
                    (IF i = 1 THEN name \o " = " ELSE "") \o cddl_def[i]
                        \o (IF i = Len(cddl_def) THEN " " \o trailing[1] ELSE "")]
    IN  <<"">> \o AsLines(leading_comment) \o first \o Tail(trailing)
            \o <<"">> \o AsLines(this_cddl) \o <<"">>

CommentStart ==
    /\ n_pc = "spec"
    /\ n_comment = <<>>
    /\ n_def \in DefinitionTexts
    /\ n_out = <<>>

\* The author of the specification writes one more line of the comment.
WriteCommentLine(line) ==
    /\ n_pc = "spec"
    /\ Len(n_comment) < MaxCommentLines
    /\ n_comment' = Append(n_comment, line)
    /\ UNCHANGED <<n_pc, n_def, n_out>>
    /\ UNCHANGED notComment

\* _add_cddl_comments(comment)
AddCddlComments ==
    /\ n_pc = "spec"
    /\ n_pc' = "called"
    /\ n_out' = [op |-> "_add_cddl_comments",
                 multiline |-> add_cddl_comments(n_comment).multiline,
                 text |-> add_cddl_comments(n_comment).comment]
    /\ UNCHANGED <<n_comment, n_def>>
    /\ UNCHANGED notComment

\* _nested_cddl("uuid_v7", found) of a definition without requirements
NestedCddlText ==
    /\ n_pc = "spec"
    /\ n_pc' = "called"
    /\ n_out' = [op |-> "_nested_cddl",
                 multiline |-> n_comment # <<>> /\ add_cddl_comments(n_comment).multiline,
                 text |-> nested_cddl_text("uuid_v7", n_def, n_comment, <<>>)]
    /\ UNCHANGED <<n_comment, n_def>>
    /\ UNCHANGED notComment

NextComment ==
    \/ \E line \in CommentLines : WriteCommentLine(line)
    \/ AddCddlComments
    \/ NestedCddlText

InitComment ==
    CommentStart /\ GraphIdle /\ CddlIdle /\ SynthIdle /\ LegacyIdle /\ RenderIdle /\ ClusterIdle /\ TypesIdle /\ ValidationIdle /\ GenerateIdle /\ OrderIdle

SpecComment == InitComment /\ [][NextComment]_vars

\* ------------------------------------------------------------------------
\* Top-level resolutions of CDDL files, one after the other in one process:
\* CDDLFile.get_cddl of gen_docs/gen_cddl_file.py and gen_docs/gen/cddl_file.py
\* and CDDLDefinitions.cddl_file of the generators package. A text is the
\* list of the definitions it holds, in order of emission.
\* ------------------------------------------------------------------------

\* The definitions of the registry. A definition requires only definitions
\* after it in this order, so that every resolution returns.
FileOrder == <<"signed_document", "document_ref", "uuid_v7", "uuid">>
FileNames == Range(FileOrder)

\* The roots the CDDL files are generated for.
FileRoots == {"signed_document", "document_ref"}

\* The generators of CDDL files.
Generators == {"gen_cddl_file.py", "gen/cddl_file.py", "generators"}

\* Bound: the number of `requires` entries written in the whole registry.
MaxFileRequires == 3

\* Bound: the number of files generated in the process.
MaxResolutions == 2

IndexOf(n) == CHOOSE i \in 1..Len(FileOrder) : FileOrder[i] = n

\* get_cddl(name, found) / _nested_cddl(name, found): the three generators
\* have the same loop. found.append acts on the list that was passed.
RECURSIVE get_cddl(_, _)
RECURSIVE get_cddl_loop(_, _, _)
get_cddl_loop(reqs, found_list, this_cddl) ==
    IF reqs = <<>> THEN [text |-> this_cddl, found |-> found_list]
    ELSE IF In(Head(reqs), found_list)
    THEN get_cddl_loop(Tail(reqs), found_list, this_cddl)
    ELSE LET next == get_cddl(Head(reqs), found_list) IN
         get_cddl_loop(Tail(reqs), Append(next.found, Head(reqs)),
                       this_cddl \o next.text)

get_cddl(name, found_list) ==
    LET r == get_cddl_loop(f_requires[name], found_list, <<>>) IN
    [text |-> <<name>> \o r.text, found |-> r.found]

GenerateStart ==
    /\ f_pc = "spec"
    /\ f_requires = [n \in FileNames |-> <<>>]
    /\ f_default = <<>>
    /\ f_calls = <<>>

\* The author of the specification writes one more `requires` entry.
WriteFileRequires(n, r) ==
    /\ f_pc = "spec"
    /\ IndexOf(n) < IndexOf(r)
    /\ SumLen(f_requires, FileNames) < MaxFileRequires
    /\ f_requires' = [f_requires EXCEPT ![n] = Append(@, r)]
    /\ UNCHANGED <<f_pc, f_default, f_calls>>
    /\ UNCHANGED notGenerate

\* The specification is loaded and the process starts generating files.
GenerateLoad ==
    /\ f_pc = "spec"
    /\ f_pc' = "run"
    /\ UNCHANGED <<f_requires, f_default, f_calls>>
    /\ UNCHANGED notGenerate

\* CDDLFile.generate of gen_docs/gen_cddl_file.py: get_cddl(root), with
\* `found` left to its default, the one list made when the function was
\* defined.
GenerateOld(root) ==
    /\ f_pc = "run"
    /\ Len(f_calls) < MaxResolutions
    /\ LET r == get_cddl(root, f_default) IN
       /\ f_default' = r.found
       /\ f_calls' = Append(f_calls, [by |-> "gen_cddl_file.py", root |-> root,
                                      text |-> r.text])
    /\ UNCHANGED <<f_pc, f_requires>>
    /\ UNCHANGED notGenerate

\* CDDLFile.generate of gen_docs/gen/cddl_file.py: get_cddl(root), where a
\* `found` of None is replaced by a new list.
GenerateGen(root) ==
    /\ f_pc = "run"
    /\ Len(f_calls) < MaxResolutions
    /\ f_calls' = Append(f_calls, [by |-> "gen/cddl_file.py", root |-> root,
                                   text |-> get_cddl(root, <<>>).text])
    /\ UNCHANGED <<f_pc, f_requires, f_default>>
    /\ UNCHANGED notGenerate

\* CDDLDefinitions.cddl_file(root): _nested_cddl(root, [])
CddlFileOf(root) ==
    /\ f_pc = "run"
    /\ Len(f_calls) < MaxResolutions
    /\ f_calls' = Append(f_calls, [by |-> "generators", root |-> root,
                                   text |-> get_cddl(root, <<>>).text])
    /\ UNCHANGED <<f_pc, f_requires, f_default>>
    /\ UNCHANGED notGenerate

NextGenerate ==
    \/ \E n \in FileNames : \E r \in FileNames : WriteFileRequires(n, r)
    \/ GenerateLoad
    \/ \E root \in FileRoots : GenerateOld(root)
    \/ \E root \in FileRoots : GenerateGen(root)
    \/ \E root \in FileRoots : CddlFileOf(root)

InitGenerate ==
    GenerateStart /\ GraphIdle /\ CddlIdle /\ SynthIdle /\ LegacyIdle /\ RenderIdle /\ ClusterIdle /\ TypesIdle /\ ValidationIdle /\ CommentIdle /\ OrderIdle

SpecGenerate == InitGenerate /\ [][NextGenerate]_vars

\* ------------------------------------------------------------------------
\* Order of the headers of a set: MetadataHeaders.order and CoseHeaders.order,
\* which have the same body, called by Metadata.model_post_init and by
\* CoseDefinitions.model_post_init.
\* ------------------------------------------------------------------------

\* The keys a header set can define.
OrderKeys == {"alg", "kid", "content type"}

\* The names an order list can hold: the keys and a name no set defines.
OrderNames == OrderKeys \cup {"undefined"}

\* Bound: the number of names of the order list.
MaxOrder == 2

\* The keys of a header set: the keys of a JSON object are distinct.
KeyLists == {l \in UNION {[1..n -> OrderKeys] : n \in 0..2} : NoDuplicates(l)}

\* The first loop of order: the keys that are not in the list are appended
\* to it, in the order of the object.
RECURSIVE add_unlisted(_, _)
add_unlisted(tmp_order, keys) ==
    IF keys = <<>> THEN tmp_order
    ELSE add_unlisted(IF ~In(Head(keys), tmp_order) THEN Append(tmp_order, Head(keys))
                      ELSE tmp_order,
                      Tail(keys))

\* The second loop of order: the names that are keys, one entry per name of
\* the list.
RECURSIVE keep_used(_, _)
keep_used(tmp_order, keys) ==
    IF tmp_order = <<>> THEN <<>>
    ELSE (IF In(Head(tmp_order), keys) THEN <<Head(tmp_order)>> ELSE <<>>)
            \o keep_used(Tail(tmp_order), keys)

\* MetadataHeaders.order / CoseHeaders.order on a set with the given keys.
\* tmp_order is the list that was passed, not a copy: `order` is what the
\* caller's list holds afterwards, `names` is _order.
order(keys, order_list) ==
    LET tmp_order == add_unlisted(order_list, keys) IN
    [order |-> tmp_order, names |-> keep_used(tmp_order, keys)]

OrderStart ==
    /\ o_pc = "spec"
    /\ o_order = <<>>
    /\ o_root \in KeyLists
    /\ o_sig_root \in KeyLists
    /\ o_out = <<>>

\* The author of the specification writes one more name of the order list.
WriteOrder(name) ==
    /\ o_pc = "spec"
    /\ Len(o_order) < MaxOrder
    /\ o_order' = Append(o_order, name)
    /\ UNCHANGED <<o_pc, o_root, o_sig_root, o_out>>
    /\ UNCHANGED notOrder

\* Metadata.model_post_init: self.headers.order(self.order)
MetadataPostInit ==
    /\ o_pc = "spec"
    /\ o_pc' = "ordered"
    /\ LET h == order(o_root, o_order) IN
       /\ o_order' = h.order
       /\ o_out' = <<[keys |-> o_root, passed |-> o_order, names |-> h.names]>>
    /\ UNCHANGED <<o_root, o_sig_root>>
    /\ UNCHANGED notOrder

\* CoseDefinitions.model_post_init: headers.order(headers_order), then
\* signature_headers.order(headers_order) with the list as the first call
\* left it.
CoseDefinitionsPostInit ==
    /\ o_pc = "spec"
    /\ o_pc' = "ordered"
    /\ LET h == order(o_root, o_order)
           g == order(o_sig_root, h.order)
       IN  /\ o_order' = g.order
           /\ o_out' = <<[keys |-> o_root, passed |-> o_order, names |-> h.names],
                         [keys |-> o_sig_root, passed |-> h.order, names |-> g.names]>>
    /\ UNCHANGED <<o_root, o_sig_root>>
    /\ UNCHANGED notOrder

NextOrder ==
    \/ \E name \in OrderNames : WriteOrder(name)
    \/ MetadataPostInit
    \/ CoseDefinitionsPostInit

InitOrder ==
    OrderStart /\ GraphIdle /\ CddlIdle /\ SynthIdle /\ LegacyIdle /\ RenderIdle /\ ClusterIdle /\ TypesIdle /\ ValidationIdle /\ CommentIdle /\ GenerateIdle

SpecOrder == InitOrder /\ [][NextOrder]_vars

\* ------------------------------------------------------------------------
\* Properties of the document reference graph
\* ------------------------------------------------------------------------

\* C1: graph symmetry. In every loaded model, for all documents A and B
\* (A = B included), B is in all_references(A) iff A is in
\* all_docs_referencing(B).
GraphSymmetry ==
    Loaded =>
        \A A \in DocNames : \A B \in DocNames :
            In(B, all_references(A)) <=> In(A, all_docs_referencing(B))

\* A loaded model in which a document references the other one and a
\* document references itself.
GraphSymmetryWitness ==
    /\ Loaded
    /\ In("Proposal Form Template", all_references("Proposal"))
    /\ In("Proposal", all_docs_referencing("Proposal Form Template"))
    /\ \E d \in DocNames : In(d, all_references(d))

\* The target names written in the `type` of the Document Reference fields
\* of document d, read off the specification as written.
ReferenceTargets(d) ==
    {t \in Targets :
        \E f \in Range(DocFields[d]) :
            /\ g_meta[d][f].format = "Document Reference"
            /\ g_meta[d][f].raw_type.kind # "none"
            /\ \E i \in 1..Len(g_meta[d][f].raw_type.v) : g_meta[d][f].raw_type.v[i] = t}

Constructed(d) == \E i \in 1..g_parsed : DocOrder[i] = d

\* C2: for every constructed document D, all_references(D) holds exactly the
\* targets named by the `type` of D's Document Reference fields, whatever
\* their requirement level, each once, and nothing from fields of another
\* format.
AllReferencesExact ==
    \A d \in DocNames :
        Constructed(d) =>
            /\ Range(all_references(d)) = ReferenceTargets(d)
            /\ NoDuplicates(all_references(d))

\* The Proposal is constructed; its excluded Document Reference field
\* `template` names the template twice, and its field `ref` of another
\* format names a target that is not taken.
AllReferencesWitness ==
    /\ Constructed("Proposal")
    /\ g_meta["Proposal"]["template"].format = "Document Reference"
    /\ g_meta["Proposal"]["template"].required = "excluded"
    /\ g_meta["Proposal"]["template"].raw_type.v
            = <<"Proposal Form Template", "Proposal Form Template">>
    /\ all_references("Proposal") = <<"Proposal Form Template">>

\* A second case: the other format's `type` is ignored.
OtherFormatIgnored ==
    /\ Constructed("Proposal")
    /\ g_meta["Proposal"]["ref"].format = "Document Id"
    /\ g_meta["Proposal"]["ref"].raw_type = RawStr("Proposal")
    /\ g_meta["Proposal"]["template"].raw_type = RawStr("Proposal Form Template")
    /\ g_meta["Proposal"]["template"].format = "Document Reference"
    /\ all_references("Proposal") = <<"Proposal Form Template">>

HasMissingTarget(d) == \E t \in ReferenceTargets(d) : t \notin DocNames

\* C3: a Document Reference target that is no document makes the load fail.
\* The iteration of Documents.model_post_init for a document with such a
\* target never completes, and no model is loaded.
MissingTargetFailsLoad ==
    \A i \in 1..Len(DocOrder) :
        HasMissingTarget(DocOrder[i]) => (g_linked < i /\ ~Loaded)

\* The load of a specification with a missing target has raised KeyError.
MissingTargetWitness ==
    /\ g_pc = "KeyError"
    /\ \E d \in DocNames : HasMissingTarget(d)

\* The referential errors of the specification: the references of a
\* document that name no document.
ReferentialErrors ==
    {e \in DocNames \X Targets : e[2] \notin DocNames /\ In(e[2], all_refs[e[1]])}

\* C20: when a specification holds several errors, the failed load reports
\* every one of them in one report, not only the first met.
AllErrorsReported ==
    g_pc = "KeyError" => ReportedErrors = ReferentialErrors

\* What the code does: exactly one error is reported, one of those present.
OneErrorReported ==
    g_pc = "KeyError" =>
        /\ Cardinality(ReportedErrors) = 1
        /\ ReportedErrors \subseteq ReferentialErrors

\* C21: after load every Document and every per-document MetadataHeader
\* reports as its name the key under which it is registered, a per-document
\* MetadataHeader reports its document's name too, and none of them reports
\* the default "Unknown".
NamesStamped ==
    Loaded =>
        \A d \in DocNames :
            /\ document_name(d) = d
            /\ \A f \in Range(DocFields[d]) : hdr_name[d][f] = <<f, d>>

\* What the code does: the document's doc_name field and the headers are
\* stamped, the name the Document reports stays the default.
NamesStampedButDocumentName ==
    Loaded =>
        \A d \in DocNames :
            /\ doc_name[d] = d
            /\ document_name(d) = "Unknown"
            /\ \A f \in Range(DocFields[d]) : hdr_name[d][f] = <<f, d>>

\* C26: all_docs_referencing(T) never holds the same document name twice,
\* through however many fields a document references T and however many
\* times add_referer is called with the same name: add_referer is
\* idempotent.
ReferersUnique ==
    \A t \in DocNames :
        /\ NoDuplicates(all_docs_referencing(t))
        /\ \A name \in DocNames :
                add_referer(add_referer(refed_by[t], name), name)
                    = add_referer(refed_by[t], name)

\* Proposal references the template through both of its fields, the model
\* is loaded, and add_referer was called again: Proposal is there once.
ReferersUniqueWitness ==
    /\ g_pc = "called"
    /\ ReferenceTargets("Proposal") = {"Proposal Form Template"}
    /\ \A f \in Range(DocFields["Proposal"]) :
            /\ g_meta["Proposal"][f].format = "Document Reference"
            /\ type(g_meta["Proposal"][f]) = <<"Proposal Form Template">>
    /\ all_docs_referencing("Proposal Form Template") = <<"Proposal">>

\* ------------------------------------------------------------------------
\* Properties of the CDDL requires-closure
\* ------------------------------------------------------------------------

\* C4: resolving the full grammar of a definition whose requires graph holds
\* a cycle terminates and visits each distinct definition exactly once.
CyclicClosureTerminates ==
    (c_pc \in {"run", "done", "RecursionError"} /\ CyclicFrom(c_root)) =>
        /\ c_pc # "RecursionError"
        /\ NoDuplicates(visited)

\* What the code does on a cycle: the resolution never returns a text.
CyclicClosureNeverDone ==
    (c_pc \in {"run", "done", "RecursionError"} /\ CyclicFrom(c_root)) => c_pc # "done"

\* C5: for a root whose requires graph is acyclic, cddl_file emits the root
\* and every definition reachable from it, each exactly once.
AcyclicClosureExact ==
    (c_pc \in {"run", "done", "RecursionError"} /\ ~CyclicFrom(c_root)) =>
        /\ c_pc # "RecursionError"
        /\ c_pc = "done" =>
                /\ Range(cddl_data) = ReachStar(c_root)
                /\ NoDuplicates(cddl_data)

\* A diamond resolved: the root requires two definitions that both require
\* a fourth one, and the text holds all four.
AcyclicClosureWitness ==
    /\ c_pc = "done"
    /\ requires["signed_document"] = <<"headers", "metadata">>
    /\ requires["headers"] = <<"uuid">>
    /\ requires["metadata"] = <<"uuid">>
    /\ cddl_data = <<"signed_document", "headers", "uuid", "metadata">>

\* C18: a specification in which a `requires` list names a definition that
\* does not exist is rejected at load, not when the definition's grammar is
\* first resolved.
MissingRequiresRejectedAtLoad ==
    /\ c_pc \in {"loaded", "run", "done", "RecursionError", "KeyError"} =>
            \A n \in CddlNames : Range(requires[n]) \subseteq CddlNames
    /\ c_pc # "KeyError"

\* What the code does: the missing definition is met by the resolution.
MissingRequiresMetLazily ==
    c_pc = "KeyError" => \E n \in ReachStar(c_root) : n \notin CddlNames

\* ------------------------------------------------------------------------
\* Properties of the synthesis (generators)
\* ------------------------------------------------------------------------

\* The map key the header registered under `key` is to be emitted with.
ClaimedLabel(header) ==
    IF header.cose_label = NoLabel THEN Quote(header.key)
    ELSE IF header.cose_label.kind = "str" THEN Quote(header.cose_label.s)
    ELSE ToString(header.cose_label.n)

\* The grammar line claimed for a header: `?` iff it is not required.
ClaimedLine(header, formats) ==
    (IF header.required = "yes" THEN "" ELSE "?")
        \o ClaimedLabel(header) \o " => " \o formats[header.format]

SynthRequiresExact ==
    s_pc = "loaded" =>
        \A k \in HeaderType :
            LET new_requires == cddl_defs[DefName(k)].requires IN
            /\ NoDuplicates(new_requires)
            /\ Range(new_requires)
                    = {FormatsOf(k)[s_headers[k][i].format] : i \in 1..Len(s_headers[k])}

\* A loaded model whose two metadata headers have the same cddl type: the
\* requires of the definition, [uuid_v7, stale_type] before, names it once.
SynthRequiresWitness ==
    /\ s_pc = "loaded"
    /\ Len(s_headers["METADATA"]) = 2
    /\ RawDefinition("Signed_Document_Metadata_Headers").requires
            = <<"uuid_v7", "stale_type">>
    /\ cddl_defs["Signed_Document_Metadata_Headers"].requires = <<"uuid_v7">>

\* Some header names a format its registry has no entry for.
HasUnknownFormat ==
    \E k \in HeaderType : \E i \in 1..Len(s_headers[k]) :
        s_headers[k][i].format \notin DOMAIN FormatsOf(k)

LoadFailedWitness ==
    /\ s_pc = "KeyError"
    /\ Len(s_headers["METADATA"]) = 2

\* C17: a header whose format has no entry in the format registry does not
\* make the load fail; the error is raised only when the fragment holding
\* the header is first requested.
UnknownFormatLoads ==
    HasUnknownFormat => s_pc # "KeyError"

\* The text claimed for the synthetic definition of a header set.
SyntheticText(k) ==
    <<"(">> \o [i \in 1..Len(s_headers[k]) |->
                    "  " \o ClaimedLine(s_headers[k][i], FormatsOf(k))] \o <<")">>

\* C22: after the post-initialization pass the registry holds the three
\* synthetic definitions, each with the text synthesized from its own header
\* set (global metadata, COSE document, COSE signature) and under its own
\* name; every other definition of the registry is as it was deserialized.
SyntheticDefinitionsInstalled ==
    s_pc = "loaded" =>
        /\ DOMAIN cddl_defs = {DefName(k) : k \in HeaderType} \cup {"uuid_v7"}
        /\ \A k \in HeaderType :
                /\ cddl_defs[DefName(k)].name = DefName(k)
                /\ cddl_defs[DefName(k)].definition = SyntheticText(k)
        /\ \A n \in DOMAIN cddl_defs \ {DefName(k) : k \in HeaderType} :
                cddl_defs[n] = [RawDefinition(n) EXCEPT !.name = n]

\* A loaded model with one metadata header and one signature header: the
\* two definitions differ, the document definition is empty, and uuid_v7
\* is the deserialized one.
SyntheticDefinitionsWitness ==
    /\ s_pc = "loaded"
    /\ Len(s_headers["METADATA"]) = 1
    /\ Len(s_headers["SIGNATURE"]) = 1
    /\ cddl_defs["Signed_Document_Metadata_Headers"].definition
            = <<"(", "  \"id\" => uuid_v7", ")">>
    /\ cddl_defs["COSE_Signature_Standard_Headers"].definition
            = <<"(", "  ?\"kid\" => catalyst_id_kid", ")">>
    /\ cddl_defs["COSE_Document_Standard_Headers"].definition = <<"(", ")">>
    /\ cddl_defs["uuid_v7"].definition = <<"(", "  placeholder", ")">>

\* The map keys a line of a synthesized definition can start with.
LineWithKey(key, formats) ==
    {marker \o key \o " => " \o formats[f] : marker \in {"", "?"}, f \in DOMAIN formats}

\* C30: name stamping precedes synthesis. In the synthetic definitions of a
\* loaded model the line of a header without cose_label is keyed by the
\* header's own quoted name and no line is keyed by "Unknown"; the line of a
\* header with a cose_label is keyed by the label, quoted if it is a string
\* and bare if it is an integer.
StampedBeforeSynthesis ==
    s_pc = "loaded" =>
        \A k \in HeaderType : \A i \in 1..Len(s_headers[k]) :
            LET header == s_headers[k][i]
                line == cddl_defs[DefName(k)].definition[i + 1]
                keyed(key) == \E l \in LineWithKey(key, FormatsOf(k)) : line = "  " \o l
            IN  /\ ~keyed(Quote("Unknown"))
                /\ header.cose_label.kind = "none" => keyed(Quote(HeaderKeys[k][i]))
                /\ header.cose_label.kind = "str" => keyed(Quote(header.cose_label.s))
                /\ header.cose_label.kind = "int" => keyed(ToString(header.cose_label.n))

\* A loaded model with a metadata header without label, named only by
\* SignedDoc.model_post_init, and a second one keyed by a string label.
StampedBeforeSynthesisWitness ==
    /\ s_pc = "loaded"
    /\ Len(s_headers["METADATA"]) = 2
    /\ s_headers["METADATA"][1].cose_label = NoLabel
    /\ s_headers["METADATA"][2].cose_label = StrLabel("content-encoding")
    /\ cddl_defs["Signed_Document_Metadata_Headers"].definition
            = <<"(", "  ?\"id\" => uuid_v7", "  \"content-encoding\" => catalyst_id", ")">>

\* ------------------------------------------------------------------------
\* Properties of the synthesis by SignedDoc.cddl_def (gen_docs)
\* ------------------------------------------------------------------------

\* C6: synthesizing the composite definition of the same header set twice in
\* a row on the same loaded model yields byte-identical definition text and
\* an identical requires list.
LegacySynthesisDeterministic ==
    \A i, j \in 1..Len(l_calls) :
        /\ l_calls[i].def = l_calls[j].def
        /\ l_calls[i].requires = l_calls[j].requires

\* The fields a and b are declared mutually exclusive in the specification.
DeclaredExclusivePair(a, b) ==
    /\ a # b
    /\ l_spec[a].exclusive = ExclusiveList(<<b>>)
    /\ l_spec[b].exclusive = ExclusiveList(<<a>>)

\* The entry of a field in the synthesized text.
LegacyEntry(h) == field_name(h) \o " => " \o LegacyFormats[l_spec[h].format]

\* A synthesized definition holds a and b as one alternation block of exactly
\* their two entries, opened by `? (`, and as no line of their own.
SingleBlockOf(defs, a, b) ==
    /\ Cardinality({n \in 1..Len(defs.blocks) :
            In(LegacyEntry(a), defs.blocks[n]) \/ In(LegacyEntry(b), defs.blocks[n])}) = 1
    /\ \E n \in 1..Len(defs.blocks) :
            /\ Len(defs.blocks[n]) = 2
            /\ Range(defs.blocks[n]) = {LegacyEntry(a), LegacyEntry(b)}
    /\ Count("  ? (", defs.def) = Len(defs.blocks)
    /\ \A l \in Range(defs.lines) : \A m \in {"", "?"} :
            l # m \o LegacyEntry(a) /\ l # m \o LegacyEntry(b)

\* C8: two fields declared mutually exclusive synthesize into a single
\* alternation block of exactly those two entries, marked optional with a
\* leading `?`, and neither appears as a separate line.
ExclusivePairSingleBlock ==
    \A a, b \in Range(LegacyKeys) :
        DeclaredExclusivePair(a, b) =>
            \A i \in 1..Len(l_calls) : SingleBlockOf(l_calls[i], a, b)

\* The first synthesis after the load does give the single block.
ExclusivePairFirstCall ==
    \A a, b \in Range(LegacyKeys) :
        (DeclaredExclusivePair(a, b) /\ Len(l_calls) >= 1) =>
            SingleBlockOf(l_calls[1], a, b)

\* Without any exclusive entry the synthesis is repeatable.
PlainSynthesisDeterministic ==
    (\A k \in Range(LegacyKeys) : l_spec[k].exclusive = NoExclusive)
        => LegacySynthesisDeterministic

\* C11: in every loaded model, for all fields A and B of the scope, B is in
\* A.exclusive if and only if A is in B.exclusive, and every member of an
\* exclusive list names a field of the scope.
ExclusivitySymmetric ==
    l_pc = "loaded" =>
        \A a, b \in Range(LegacyKeys) :
            /\ In(b, l_spec[a].exclusive.v) <=> In(a, l_spec[b].exclusive.v)
            /\ Range(l_spec[a].exclusive.v) \subseteq Range(LegacyKeys)

\* C15: after the load no query changes any field of the model: the model
\* stays as the post-initialization pass left it.
LegacyQueriesReadOnly ==
    [][l_pc = "loaded" => UNCHANGED <<l_metadata, l_order, l_def>>]_vars

\* ------------------------------------------------------------------------
\* Properties of the rendering of the metadata fields
\* ------------------------------------------------------------------------

\* The header a rendering took for a field.
RenderedHeader(k) ==
    IF r_out.doc_name = None THEN r_headers[k] ELSE r_docs[r_out.doc_name][k]

\* The rows that give detail of a field beyond its requirement level.
DetailRows ==
    {"Format", "Type", "Multiple References", "Valid References",
     "Linked Reference Metadata", "description", "validation title", "validation"}

\* C10: a header whose requirement is `excluded` renders as its requirement
\* level only, with no Format row, reference row, description or validation
\* text; in the rendering of a document it contributes nothing at all.
ExcludedSuppressed ==
    r_out # <<>> =>
        \A k \in Range(RenderKeys) :
            RenderedHeader(k).required = "excluded" =>
                IF r_out.doc_name = None
                THEN \E n \in 1..Len(r_out.parts) :
                        /\ r_out.parts[n].field = k
                        /\ \A i \in 1..Len(r_out.parts[n].rows) :
                                r_out.parts[n].rows[i].row \notin DetailRows
                        /\ Count(Row("Required", "| Required | excluded |"),
                                 r_out.parts[n].rows) = 1
                ELSE /\ \A n \in 1..Len(r_out.parts) : r_out.parts[n].field # k
                     /\ ~In(Row("title", "### '" \o k \o "'"), r_out.text)

\* An excluded header of the global set that has a validation text or
\* references was rendered next to a header that is not excluded.
ExcludedSuppressedWitness ==
    /\ r_out # <<>>
    /\ r_out.doc_name = None
    /\ \E k, j \in Range(RenderKeys) :
            /\ r_headers[k].required = "excluded"
            /\ \E o \in Options : IsWritten(r_headers[k], o)
            /\ r_headers[j].required # "excluded"
            /\ In(Row("Format", "| Format | 'Document Reference' |"), r_out.text)

\* An excluded header of a document was left out of the document's rendering.
ExcludedInDocumentWitness ==
    /\ r_out # <<>>
    /\ r_out.doc_name \in RenderDocs
    /\ \E k, j \in Range(RenderKeys) :
            /\ r_docs[r_out.doc_name][k].required = "excluded"
            /\ \E o \in Options : IsWritten(r_docs[r_out.doc_name][k], o)
            /\ r_docs[r_out.doc_name][j].required # "excluded"
            /\ Len(r_out.parts) = 1

\* C19: a specification in which a linked_refs entry names a metadata field
\* that is defined nowhere is rejected at load: in every loaded model each
\* linked_refs entry names an existing metadata field.
LinkedRefsExist ==
    r_pc = "loaded" =>
        /\ \A k \in Range(RenderKeys) :
                Range(linked_refs(r_headers[k])) \subseteq Range(RenderKeys)
        /\ \A d \in RenderDocs : \A k \in Range(RenderKeys) :
                Range(linked_refs(r_docs[d][k])) \subseteq Range(RenderKeys)

\* ------------------------------------------------------------------------
\* Properties of the document clusters
\* ------------------------------------------------------------------------

\* The last query was for_ref.
IsForRef == k_result # <<>> /\ k_result.op = "for_ref"

\* C12 as stated: for_ref returns a cluster only if the cluster's members
\* equal the given names as a set, and a name list that equals a cluster's
\* members as a set always yields that cluster.
ForRefExactSet ==
    IsForRef =>
        /\ k_result.value # None =>
                Range(k_docs[k_result.value]) = Range(k_result.ref)
        /\ \A c \in ClusterNames :
                Range(k_docs[c]) = Range(k_result.ref) =>
                    /\ k_result.value # None
                    /\ k_docs[k_result.value] = k_docs[c]

\* C12 as amended: the comparison is of multisets. for_ref returns a cluster
\* only if the cluster's docs and the given list hold the same names the same
\* number of times (so a proper subset or superset never matches), and a list
\* that does so for some cluster always yields the first such cluster.
ForRefExactMultiset ==
    IsForRef =>
        /\ k_result.value # None =>
                /\ Range(k_docs[k_result.value]) = Range(k_result.ref)
                /\ Len(k_docs[k_result.value]) = Len(k_result.ref)
                /\ \A x \in ClusterDocs :
                        Count(x, k_docs[k_result.value]) = Count(x, k_result.ref)
        /\ \A n \in 1..Len(ClusterOrder) :
                (\A x \in ClusterDocs :
                    Count(x, k_docs[ClusterOrder[n]]) = Count(x, k_result.ref)) =>
                    /\ k_result.value # None
                    /\ \E m \in 1..n : k_result.value = ClusterOrder[m]

\* for_ref was asked for a proper subset of a cluster of two members and
\* found nothing.
ForRefWitness ==
    /\ IsForRef
    /\ k_result.value = None
    /\ Len(k_result.ref) = 1
    /\ \E c \in ClusterNames :
            /\ Cardinality(Range(k_docs[c])) = 2
            /\ Range(k_result.ref) \subseteq Range(k_docs[c])

\* for_ref found the cluster whose two members are the two names given in
\* the other order.
ForRefMatchWitness ==
    /\ IsForRef
    /\ k_result.value # None
    /\ Cardinality(Range(k_result.ref)) = 2
    /\ k_docs[k_result.value] # k_result.ref

\* C13: a specification in which one document is a member of two clusters
\* is rejected at load, so in every loaded model at most one cluster holds a
\* given document.
ClusterMembershipUnique ==
    k_pc = "loaded" =>
        \A d \in ClusterDocs :
            Cardinality({c \in ClusterNames : In(d, k_docs[c])}) <= 1

\* ------------------------------------------------------------------------
\* Properties of the base types
\* ------------------------------------------------------------------------

\* C14: in every loaded model the mapping is bijective, name(uuid(n)) = n
\* for every base type name n; a specification in which two names have the
\* same DocTypeId does not load.
BaseTypesBijective ==
    t_pc = "loaded" =>
        /\ \A n \in BaseTypeNames :
                base_name(t_for_uuid, base_uuid(t_root, n)) = [raised |-> FALSE, value |-> n]
        /\ \A n, o \in BaseTypeNames : t_root[n] = t_root[o] => n = o

\* Where no two names share a DocTypeId the round trip does hold.
BaseTypesRoundTripIfDistinct ==
    (t_pc = "loaded" /\ \A n, o \in BaseTypeNames : t_root[n] = t_root[o] => n = o) =>
        \A n \in BaseTypeNames :
            base_name(t_for_uuid, base_uuid(t_root, n)) = [raised |-> FALSE, value |-> n]

\* ------------------------------------------------------------------------
\* Properties of the validation text
\* ------------------------------------------------------------------------

\* A call of get_validation has returned a text.
ValidationReturned == v_pc = "called" /\ v_out.res.raised = ""

Texts(rows) == [i \in 1..Len(rows) |-> rows[i].text]

\* The member lines claimed for an `exclusive` list: every member once, in
\* backquotes, "and" before the last of two or more, a comma before the
\* others after the first.
ClaimedMembers(exclusive) ==
    [i \in 1..Len(exclusive) |->
        (IF i = 1 THEN "" ELSE IF i = Len(exclusive) THEN "and " ELSE ", ")
            \o "'" \o exclusive[i] \o "'"
            \o (IF i = Len(exclusive) THEN " metadata." ELSE "")]

\* The lines of a text from the note about the exclusive fields on, the
\* clauses of the linked references left out.
NoteLines(rows, n_linked) == SubSeq(Texts(rows), 2, Len(rows) - 3 * n_linked)

\* The claim of C23 on the text one implementation returned.
ExclusiveClauseOf(impl) ==
    ValidationReturned /\ v_out.impl = impl =>
        LET exclusive == exclusive_of(v_field)
            note == NoteLines(v_out.res.rows, Len(linked_refs(v_field)))
        IN  IF exclusive = <<>> THEN note = <<>>
            ELSE note = <<"* MUST NOT be present in any document that contains ">>
                            \o ClaimedMembers(exclusive)

\* C23: the mutual-exclusivity clause appended by get_validation names every
\* member of the field's `exclusive` list exactly once, each in backquotes,
\* with "and" only before the last member of two or more; a single member
\* gives no "and". Stated of both get_validation of gen_docs.
ExclusiveClauseWellFormed ==
    ExclusiveClauseOf("gen_docs") /\ ExclusiveClauseOf("metadata_spec")

\* What the code does: gen_docs/spec/metadata.py gives the claimed clause.
ExclusiveClauseGenDocs == ExclusiveClauseOf("gen_docs")

\* The clause claimed for the linked_refs entry ref of the field named name.
ClauseLines(ref, name) ==
    <<"* The Document referenced by '" \o ref \o "'",
      "  * MUST contain '" \o name \o "' metadata; AND",
      "  * MUST match the referencing documents '" \o name \o "' value.">>

AllClauseLines ==
    UNION {Range(ClauseLines(ref, name)) : ref \in ValidationFields, name \in ValidationFields}

\* The lines of a text that are lines of a linked-reference clause.
IsClauseLine(text) == text \in AllClauseLines
LinkedPart(rows) == SelectSeq(Texts(rows), IsClauseLine)

\* One clause per entry, in the order of the list.
ClaimedClauses(refs, name) ==
    [i \in 1..(3 * Len(refs)) |->
        ClauseLines(refs[((i - 1) \div 3) + 1], name)[((i - 1) % 3) + 1]]

LinkedClauseGenDocsWitness ==
    /\ ValidationReturned
    /\ v_out.impl = "gen_docs"
    /\ exclusive_of(v_field) # <<>>
    /\ Len(linked_refs(v_field)) = 2

\* The example: linked_refs ["campaign_id"] on the field category_id of
\* the document X, get_validation of the generators has returned.
ExampleCalled ==
    /\ ValidationReturned
    /\ v_out.impl = "generators"
    /\ v_field.name = "category_id"
    /\ v_field.doc_name = "X"
    /\ linked_refs(v_field) = <<"campaign_id">>

CommentFlagIffMultiline ==
    /\ n_pc = "called" /\ n_out.op = "_add_cddl_comments" =>
            (n_out.multiline <=> Len(strip_lines(n_comment)) > 1)
    /\ n_pc = "called" /\ n_out.op = "_nested_cddl"
            /\ Len(strip_lines(n_comment)) = 1 /\ Len(n_def) = 1 =>
            /\ In("uuid_v7 = " \o n_def[1] \o " ; " \o strip_lines(n_comment)[1], n_out.text)
            /\ ~In("; " \o strip_lines(n_comment)[1], n_out.text)

\* What the code does: the flag is True as soon as the stripped comment has
\* a line, and every such comment is moved above its definition.
CommentFlagIffAnyLine ==
    /\ n_pc = "called" /\ n_out.op = "_add_cddl_comments" =>
            (n_out.multiline <=> Len(strip_lines(n_comment)) > 0)
    /\ n_pc = "called" /\ n_out.op = "_nested_cddl" /\ Len(strip_lines(n_comment)) > 0 =>
            /\ SubSeq(n_out.text, 2, 1 + Len(strip_lines(n_comment)))
                    = add_cddl_comments(n_comment).comment
            /\ In("uuid_v7 = " \o n_def[1] \o (IF Len(n_def) = 1 THEN " " ELSE ""), n_out.text)

\* ------------------------------------------------------------------------
\* Properties of the resolutions of one process
\* ------------------------------------------------------------------------

\* The definitions a root reaches through `requires`, itself included.
RECURSIVE FileReach(_, _)
FileReach(S, k) ==
    IF k = 0 THEN S
    ELSE FileReach(S \cup UNION {Range(f_requires[n]) : n \in S}, k - 1)

FileClosure(root) == FileReach({root}, Len(FileOrder))

\* The claim of C28 on the resolutions of one generator.
HistoryFree(by) ==
    \A i \in 1..Len(f_calls) :
        f_calls[i].by = by =>
            /\ f_calls[i].text = get_cddl(f_calls[i].root, <<>>).text
            /\ Range(f_calls[i].text) = FileClosure(f_calls[i].root)

\* C28: no visited-set state is carried between top-level resolutions. The
\* text produced for a root is the one produced when it is resolved first,
\* whatever was resolved before it in the process, and holds every
\* definition the root reaches: a dependency shared by two roots is in the
\* output of both.
ResolutionIndependentOfHistory ==
    \A by \in Generators : HistoryFree(by)

\* What the code does: the generators that start from a new list are free
\* of the history.
NewListIndependentOfHistory ==
    HistoryFree("gen/cddl_file.py") /\ HistoryFree("generators")

\* ------------------------------------------------------------------------
\* Properties of the order of the headers
\* ------------------------------------------------------------------------

\* The names of a list that are keys, each at its first place only.
RECURSIVE ListedOnce(_, _, _)
ListedOnce(order_list, keys, seen) ==
    IF order_list = <<>> THEN <<>>
    ELSE (IF In(Head(order_list), keys) /\ Head(order_list) \notin seen
          THEN <<Head(order_list)>> ELSE <<>>)
            \o ListedOnce(Tail(order_list), keys, seen \cup {Head(order_list)})

\* The names claimed for a set: the listed keys in the order of the list,
\* then the unlisted keys in the order of the object.
ClaimedNames(keys, order_list) ==
    ListedOnce(order_list, keys, {})
        \o SelectSeq(keys, LAMBDA name : ~In(name, order_list))

\* The claim of C29 on every header set that was ordered.
OrderedAsClaimed ==
    \A i \in 1..Len(o_out) :
        /\ NoDuplicates(o_out[i].names)
        /\ Range(o_out[i].names) = Range(o_out[i].keys)
        /\ o_out[i].names = ClaimedNames(o_out[i].keys, o_out[i].passed)

\* C29: after order(order_list) on a header set, `names` is a permutation
\* of the defined keys: every key once, undefined names dropped, the listed
\* keys first in the order of the list and the unlisted keys after them in
\* the order of definition; for any order_list, one with repeated names
\* included, and for the signature headers too, ordered with the list the
\* document headers were ordered with.
NamesArePermutation ==
    o_pc = "ordered" => OrderedAsClaimed

\* What the code does: the claim holds when no name is repeated in the list.
NamesArePermutationIfNoRepeat ==
    o_pc = "ordered" /\ NoDuplicates(o_out[1].passed) => OrderedAsClaimed

====
